---- MODULE Spec2Model ----
(***************************************************************************)
(* tun2socks: the DNS hijack table (package dns, src/unnamed/part_000) and *)
(* the per-connection TCP tunnel (src/tun2socks/tcp2socks.go).             *)
(*                                                                         *)
(* The table part models DNSTable: the two maps, the non proxy set, the    *)
(* address pool it owns and the Serve loop.  Every method that runs under  *)
(* one lock is one action; Serve and Reload, which take two locks one      *)
(* after the other, are two actions each.                                  *)
(***************************************************************************)
EXTENDS Integers, Sequences, FiniteSets, TLC

VARIABLES
    capacity,         \* ipPool.Capacity(): number of usable addresses
    poolUsed,         \* ipPool: the addresses handed out and not released
    poolFault,        \* ipPool: TRUE once Release got an address that was not out
    records,          \* DNSTable.records: domain -> DomainRecord
    ip2Domain,        \* DNSTable.ip2Domain: ip -> domain
    nonProxyDomains,  \* DNSTable.nonProxyDomains: domain -> expiry
    clock,            \* time.Now()
    servePc,          \* Serve: "tick" (waiting for a tick), "records", "npd" (the sweep due)
    tickNow,          \* Serve: now, the time of the tick received
    reloadPc,         \* Reload: "idle" or "records" (npdLock held, recordsLock wanted)
    released,         \* the releases logged by the last clearExpiredDomain (line 177)
    ret,              \* what the last call of a table method returned
    asked,            \* the client: how many domains it has asked about so far
    call,             \* the client: its last call, with the arguments
    fakeDNS,          \* app.FakeDNS != nil
    dialed,           \* app.Proxies.Dial: the calls made by the last NewTCP2Socks
    newRet,           \* what the last NewTCP2Socks returned
    \* TCPTunnel
    runPc,                \* Run: where it is
    ctxSet,               \* ctx and ctxCancel have been assigned (line 105)
    ctxDone,              \* ctxCancel() has been called
    localEndpointStatus,  \* "Unset", "Proxying" or "Closed"
    remoteStatus,         \* "Unset", "Proxying" or "Closed"
    closeOne,             \* sync.Once: "new", "running" or "done"
    closer,               \* who runs the body of Close
    closePc,              \* the next statement of the body of Close
    remotePc,             \* readFromRemoteWriteToLocal: where it is
    remoteErr,            \* the error of its last remoteConn.Read
    remoteReason,         \* the argument of its call of Close
    rChunk,               \* chunk: the bytes it has still to write
    localPc,              \* readFromLocalWriteToRemote: where it is
    localReason,          \* the argument of its call of Close
    lChunk,               \* v: the bytes it has still to write
    extPc,                \* a caller of Close from outside: "idle" or "close"
    extCalls,             \* how many calls it has made
    localClosed,          \* how many times localEndpoint.Close() was called
    remoteClosed,         \* how many times remoteConn.Close() was called
    closeLogs,            \* how many times Close logged "tcp tunnel closed reason"
    logged,               \* the errors logged, each with the place that logged it
    panicked,             \* the process died of a nil ctxCancel
    remoteRead,           \* the bytes remoteConn.Read has returned, in order
    localWritten,         \* the bytes localEndpoint.Write has taken, in order
    localRead,            \* the bytes localEndpoint.Read has returned, in order
    remoteWritten,        \* the bytes remoteConn.Write has taken, in order
    teardown,             \* the effects of the body of Close, in order
    RealIP,               \* DomainRecord.RealIP of one record
    msg,                  \* the message of the last call of SetRealIP on it
    recordsLock,          \* DNSTable.recordsLock: the goroutine that holds it
    npdLock,              \* DNSTable.npdLock: the goroutine that holds it
    pc                    \* where each goroutine that uses the table is

tableVars == <<capacity, poolUsed, poolFault, records, ip2Domain, nonProxyDomains,
               clock, servePc, tickNow, reloadPc, released, ret>>

envVars == <<asked, call, fakeDNS, dialed, newRet>>

tunnelVars == <<runPc, ctxSet, ctxDone, localEndpointStatus, remoteStatus, closeOne,
                closer, closePc, remotePc, remoteErr, remoteReason, rChunk, localPc,
                localReason, lChunk, extPc, extCalls, localClosed, remoteClosed,
                closeLogs, logged, panicked, remoteRead, localWritten, localRead,
                remoteWritten, teardown>>

realVars == <<RealIP, msg>>

lockVars == <<recordsLock, npdLock, pc>>

vars == <<tableVars, envVars, tunnelVars, realVars, lockVars>>

----------------------------------------------------------------------------
(* Bounds of the model *)

MaxClock == 2          \* the clock runs 0..MaxClock
MaxHits == 2           \* a record is touched until Hits reaches MaxHits
AllocFanout == 2       \* Alloc hands out one of the AllocFanout lowest free addresses
DNSDefaultTTL == 1     \* configure.DNSDefaultTTL, in clock units
TableCapacity == 10    \* pool capacity of the general table specification
MaxChunk == 2          \* a read returns at most MaxChunk bytes
MaxExtClose == 1       \* calls of Close from outside the tunnel
MaxStream == 2         \* bytes each side hands to its pump over the life of a tunnel
GateCapacity == 100    \* pool capacity of the threshold specification
FairCapacity == 1      \* pool capacity of the fair specification of the mutexes

Domains == {"a", "b"}
Tags == {"p"}
NpdDomains == {"a"}
NpdTTLs == {0, 1}
\* the order in which a client asks about new domains
ExhaustOrder == <<"a", "b", "c", "d", "e">>
ExhaustCapacity == Len(ExhaustOrder) - 1
NewTags == {"p", "block"}       \* routing tags; "block" is the reject tag
NewAddrs == {0, 1}              \* destination addresses: 0 is outside the pool
Ports == {80, 443}
GateOrder == <<"d01", "d02", "d03", "d04", "d05", "d06",
               "d07", "d08", "d09", "d10", "d11", "d12">>

(* Program constants *)
MaxThreshold == 1000   \* threshold := 1000
ThresholdDivisor == 10 \* c.ipPool.Capacity()/10

Nil == [nil |-> TRUE]    \* a nil *DomainRecord
Void == [void |-> TRUE]  \* the call returns nothing

----------------------------------------------------------------------------
(* Go maps *)

MapPut(m, k, v) == [x \in DOMAIN m \cup {k} |-> IF x = k THEN v ELSE m[x]]
EmptyMap == [x \in {} |-> 0]

----------------------------------------------------------------------------
(* DNSIPPool: not among the sources; modelled from the design text.         *)

Addrs == 1..capacity

\* Alloc: a free address, or none when no free address remains.
AllocChoices(used) ==
    LET free == Addrs \ used
    IN  {x \in free : Cardinality({y \in free : y < x}) < AllocFanout}

\* Release: the address returns to the free set.
PoolRelease(used, ip) == used \ {ip}

\* Releasing an address that is not out is a programming error.
PoolReleaseFault(used, ip) == ip \notin used

----------------------------------------------------------------------------
(* DomainRecord *)

NewRecord(domain, proxy, ip) ==
    [Hostname |-> domain, Proxy |-> proxy, IP |-> ip, Hits |-> 0, Expires |-> 0]

\* a returned *DomainRecord: the record it points to, as it is at the return
Ref(record) == record

Touch(record) ==
    [record EXCEPT !.Hits = @ + 1, !.Expires = clock + DNSDefaultTTL]

----------------------------------------------------------------------------
(* DNSTable *)

\* npdLock is held across a step only by Reload, between its two loops;
\* recordsLock is never held across a step.
NpdLockFree == reloadPc = "idle"

\* c.get(domain): the maps and the return value after the lookup
get(domain) ==
    IF domain \in DOMAIN records
    THEN /\ records[domain].Hits < MaxHits
         /\ records' = [records EXCEPT ![domain] = Touch(records[domain])]
         /\ ret' = Ref(Touch(records[domain]))
    ELSE /\ records' = records
         /\ ret' = Nil

Get(domain) ==
    /\ get(domain)
    /\ UNCHANGED <<capacity, poolUsed, poolFault, ip2Domain, nonProxyDomains,
                   clock, servePc, tickNow, reloadPc, released>>

GetByIP(ip) ==
    /\ IF ip \in DOMAIN ip2Domain
       THEN get(ip2Domain[ip])
       ELSE records' = records /\ ret' = Nil
    /\ UNCHANGED <<capacity, poolUsed, poolFault, ip2Domain, nonProxyDomains,
                   clock, servePc, tickNow, reloadPc, released>>

\* Set that looks the domain up with c.get(domain), which touches the record
SetViaGet(domain, proxy) ==
    /\ IF domain \in DOMAIN records
       THEN /\ records' = [records EXCEPT ![domain] = Touch(records[domain])]
            /\ ret' = Ref(Touch(records[domain]))
            /\ UNCHANGED <<ip2Domain, poolUsed>>
       ELSE IF AllocChoices(poolUsed) = {}
       THEN /\ ret' = Nil
            /\ UNCHANGED <<records, ip2Domain, poolUsed>>
       ELSE \E ip \in AllocChoices(poolUsed) :
              LET record == Touch(NewRecord(domain, proxy, ip))
              IN  /\ poolUsed' = poolUsed \cup {ip}
                  /\ records' = MapPut(records, domain, record)
                  /\ ip2Domain' = MapPut(ip2Domain, ip, domain)
                  /\ ret' = Ref(record)
    /\ UNCHANGED <<capacity, poolFault, nonProxyDomains, clock, servePc, tickNow,
                   reloadPc, released>>

\* Set that allocates before it looks the domain up
SetAllocFirst(domain, proxy) ==
    /\ IF AllocChoices(poolUsed) = {}
       THEN /\ ret' = Nil
            /\ UNCHANGED <<records, ip2Domain, poolUsed>>
       ELSE \E ip \in AllocChoices(poolUsed) :
              IF domain \in DOMAIN records
              THEN /\ poolUsed' = poolUsed \cup {ip}
                   /\ ret' = Ref(records[domain])
                   /\ UNCHANGED <<records, ip2Domain>>
              ELSE LET record == Touch(NewRecord(domain, proxy, ip))
                   IN  /\ poolUsed' = poolUsed \cup {ip}
                       /\ records' = MapPut(records, domain, record)
                       /\ ip2Domain' = MapPut(ip2Domain, ip, domain)
                       /\ ret' = Ref(record)
    /\ UNCHANGED <<capacity, poolFault, nonProxyDomains, clock, servePc, tickNow,
                   reloadPc, released>>

Set(domain, proxy) ==
    /\ IF domain \in DOMAIN records
       THEN /\ ret' = Ref(records[domain])
            /\ UNCHANGED <<records, ip2Domain, poolUsed>>
       ELSE IF AllocChoices(poolUsed) = {}
       THEN /\ ret' = Nil
            /\ UNCHANGED <<records, ip2Domain, poolUsed>>
       ELSE \E ip \in AllocChoices(poolUsed) :
              LET record == Touch(NewRecord(domain, proxy, ip))
              IN  /\ poolUsed' = poolUsed \cup {ip}
                  /\ records' = MapPut(records, domain, record)
                  /\ ip2Domain' = MapPut(ip2Domain, ip, domain)
                  /\ ret' = Ref(record)
    /\ UNCHANGED <<capacity, poolFault, nonProxyDomains, clock, servePc, tickNow,
                   reloadPc, released>>

IsNonProxyDomain(domain) ==
    /\ NpdLockFree
    /\ ret' = [ok |-> domain \in DOMAIN nonProxyDomains]
    /\ UNCHANGED <<capacity, poolUsed, poolFault, records, ip2Domain,
                   nonProxyDomains, clock, servePc, tickNow, reloadPc, released>>

SetNonProxyDomain(domain, ttl) ==
    /\ NpdLockFree
    /\ nonProxyDomains' = MapPut(nonProxyDomains, domain, clock + ttl)
    /\ ret' = Void
    /\ UNCHANGED <<capacity, poolUsed, poolFault, records, ip2Domain,
                   clock, servePc, tickNow, reloadPc, released>>

\* threshold := 1000; if threshold > Capacity()/10 { threshold = Capacity()/10 }
Threshold ==
    IF MaxThreshold > capacity \div ThresholdDivisor
    THEN capacity \div ThresholdDivisor
    ELSE MaxThreshold

\* Swept with the threshold test len(c.records) < threshold
SweptBelowThreshold(now) ==
    IF Cardinality(DOMAIN records) < Threshold
    THEN {}
    ELSE {d \in DOMAIN records : records[d].Expires < now}

\* Swept with the expiry test !now.Before(record.Expires)
SweptAtExpiry(now) ==
    IF Cardinality(DOMAIN records) <= Threshold
    THEN {}
    ELSE {d \in DOMAIN records : records[d].Expires <= now}

\* the records the sweep of clearExpiredDomain(now) deletes
Swept(now) ==
    IF Cardinality(DOMAIN records) <= Threshold
    THEN {}
    ELSE {d \in DOMAIN records : records[d].Expires < now}

\* c.ipPool.Release(record.IP) for the record of every domain of gone, one
\* after the other as the loop meets them
RECURSIVE ReleaseEach(_, _, _)
ReleaseEach(used, recs, gone) ==
    IF gone = {}
    THEN used
    ELSE LET d == CHOOSE x \in gone : TRUE
         IN  ReleaseEach(PoolRelease(used, recs[d].IP), recs, gone \ {d})

RECURSIVE ReleaseEachFault(_, _, _)
ReleaseEachFault(used, recs, gone) ==
    IF gone = {}
    THEN FALSE
    ELSE LET d == CHOOSE x \in gone : TRUE
         IN  \/ PoolReleaseFault(used, recs[d].IP)
             \/ ReleaseEachFault(PoolRelease(used, recs[d].IP), recs, gone \ {d})

\* DeleteAll without delete(c.ip2Domain, record.IP.String())
DeleteAllKeepIndex(gone) ==
    /\ records' = [d \in DOMAIN records \ gone |-> records[d]]
    /\ ip2Domain' = ip2Domain
    /\ poolUsed' = ReleaseEach(poolUsed, records, gone)
    /\ poolFault' = (poolFault \/ ReleaseEachFault(poolUsed, records, gone))

\* DeleteAll without c.ipPool.Release(record.IP)
DeleteAllNoRelease(gone) ==
    /\ records' = [d \in DOMAIN records \ gone |-> records[d]]
    /\ ip2Domain' = [i \in DOMAIN ip2Domain \ {records[d].IP : d \in gone} |-> ip2Domain[i]]
    /\ poolUsed' = poolUsed
    /\ poolFault' = poolFault

\* the two delete loops, over the set gone of domains:
\* delete(c.records, domain); delete(c.ip2Domain, ip); c.ipPool.Release(ip)
DeleteAll(gone) ==
    /\ records' = [d \in DOMAIN records \ gone |-> records[d]]
    /\ ip2Domain' = [i \in DOMAIN ip2Domain \ {records[d].IP : d \in gone} |-> ip2Domain[i]]
    /\ poolUsed' = ReleaseEach(poolUsed, records, gone)
    /\ poolFault' = (poolFault \/ ReleaseEachFault(poolUsed, records, gone))

clearExpiredDomain(now) ==
    /\ DeleteAll(Swept(now))
    /\ released' = {<<d, records[d].IP>> : d \in Swept(now)}

clearExpiredNonProxyDomain(now) ==
    nonProxyDomains' = [d \in {x \in DOMAIN nonProxyDomains :
                                  ~(nonProxyDomains[x] < now)} |-> nonProxyDomains[d]]

\* Serve: for now := range tick
ServeTick ==
    /\ servePc = "tick"
    /\ tickNow' = clock
    /\ servePc' = "records"
    /\ UNCHANGED <<capacity, poolUsed, poolFault, records, ip2Domain,
                   nonProxyDomains, clock, reloadPc, released, ret>>

\* Serve: c.clearExpiredDomain(now)
ServeRecords ==
    /\ servePc = "records"
    /\ clearExpiredDomain(tickNow)
    /\ servePc' = "npd"
    /\ UNCHANGED <<capacity, nonProxyDomains, clock, tickNow, reloadPc, ret>>

\* Serve: c.clearExpiredNonProxyDomain(now)
ServeNonProxy ==
    /\ servePc = "npd"
    /\ NpdLockFree
    /\ clearExpiredNonProxyDomain(tickNow)
    /\ servePc' = "tick"
    /\ tickNow' = 0
    /\ UNCHANGED <<capacity, poolUsed, poolFault, records, ip2Domain, clock,
                   reloadPc, released, ret>>

\* Reload up to c.recordsLock.Lock(): npdLock taken, the non proxy set cleared
ReloadNonProxy ==
    /\ reloadPc = "idle"
    /\ nonProxyDomains' = EmptyMap
    /\ reloadPc' = "records"
    /\ UNCHANGED <<capacity, poolUsed, poolFault, records, ip2Domain, clock,
                   servePc, tickNow, released, ret>>

\* Reload from c.recordsLock.Lock() to the return: every record deleted
ReloadRecords ==
    /\ reloadPc = "records"
    /\ DeleteAll(DOMAIN records)
    /\ reloadPc' = "idle"
    /\ UNCHANGED <<capacity, nonProxyDomains, clock, servePc, tickNow, released, ret>>

\* time passes
Advance ==
    /\ clock < MaxClock
    /\ clock' = clock + 1
    /\ UNCHANGED <<capacity, poolUsed, poolFault, records, ip2Domain,
                   nonProxyDomains, servePc, tickNow, reloadPc, released, ret>>

\* NewDnsTable
InitTable(cap) ==
    /\ capacity = cap
    /\ poolUsed = {}
    /\ poolFault = FALSE
    /\ records = EmptyMap
    /\ ip2Domain = EmptyMap
    /\ nonProxyDomains = EmptyMap
    /\ clock = 0
    /\ servePc = "tick"
    /\ tickNow = 0
    /\ reloadPc = "idle"
    /\ released = {}
    /\ ret = Nil

\* the hijack methods and the Serve loop, called with domains of D and tags of T
NonProxyNext ==
    \/ \E d \in NpdDomains : IsNonProxyDomain(d)
    \/ \E d \in NpdDomains, t \in NpdTTLs : SetNonProxyDomain(d, t)

InitEnv ==
    /\ asked = 0
    /\ call = <<"NewDnsTable">>
    /\ fakeDNS = TRUE
    /\ dialed = <<>>
    /\ newRet = Void

----------------------------------------------------------------------------
(* The two mutexes of DNSTable.  Four goroutines use the table at once: one *)
(* calls the hijack methods and Contains, one calls the non proxy methods,  *)
(* one runs Serve and one calls Reload.  pc[t] is <<method, place>>: at     *)
(* "Lock" the goroutine is at the Lock() of the method and has not got the  *)
(* mutex, at "locked" it has got it and has the rest of the method to run.  *)
(* The rest of a method and its deferred Unlock are one step: nothing can   *)
(* see the table between them.                                              *)

LockThreads == {"hijack", "bypass", "serve", "reload"}

Unlocked == "unlocked"    \* the zero value of sync.Mutex

Idle == <<"none", "idle">>
ServeIdle == <<"Serve", "range tick">>

HijackOps == {"Get", "GetByIP", "Set"}
BypassOps == {"IsNonProxyDomain", "SetNonProxyDomain"}
LockDomains == {"a"}
ContainsAddrs == {0, 1}   \* 0 is outside the subnet of the pool

Goto(t, place) == pc' = [pc EXCEPT ![t] = place]

\* Contains: membership in the reserved subnet, not in the allocated set
PoolContains(ip) == ip \in Addrs

\* no record has been touched MaxHits times: a lookup can still touch
CanTouch == \A d \in DOMAIN records : records[d].Hits < MaxHits

\* a goroutine calls Get, GetByIP or Set and arrives at c.recordsLock.Lock()
HijackCall(op) ==
    /\ pc["hijack"] = Idle
    /\ op \in {"Get", "GetByIP"} => CanTouch
    /\ Goto("hijack", <<op, "Lock">>)
    /\ UNCHANGED <<tableVars, recordsLock, npdLock>>

\* c.recordsLock.Lock() of Get, GetByIP or Set returns
HijackLock ==
    /\ \E op \in HijackOps :
          /\ pc["hijack"] = <<op, "Lock">>
          /\ Goto("hijack", <<op, "locked">>)
    /\ recordsLock = Unlocked
    /\ recordsLock' = "hijack"
    /\ UNCHANGED <<tableVars, npdLock>>

\* Get: return c.get(domain), and the deferred c.recordsLock.Unlock()
GetLocked ==
    /\ pc["hijack"] = <<"Get", "locked">>
    /\ \E d \in LockDomains : Get(d)
    /\ recordsLock' = Unlocked
    /\ Goto("hijack", Idle)
    /\ UNCHANGED npdLock

\* GetByIP: the lookup, and the deferred c.recordsLock.Unlock()
GetByIPLocked ==
    /\ pc["hijack"] = <<"GetByIP", "locked">>
    /\ \E ip \in Addrs : GetByIP(ip)
    /\ recordsLock' = Unlocked
    /\ Goto("hijack", Idle)
    /\ UNCHANGED npdLock

\* Set: the body, c.ipPool.Alloc in it, and the deferred c.recordsLock.Unlock()
SetLocked ==
    /\ pc["hijack"] = <<"Set", "locked">>
    /\ \E d \in LockDomains, p \in Tags : Set(d, p)
    /\ recordsLock' = Unlocked
    /\ Goto("hijack", Idle)
    /\ UNCHANGED npdLock

\* Contains is called: the goroutine enters c.ipPool.Contains(ip), no Lock()
ContainsCall ==
    /\ pc["hijack"] = Idle
    /\ Goto("hijack", <<"Contains", "ipPool">>)
    /\ UNCHANGED <<tableVars, recordsLock, npdLock>>

\* c.ipPool.Contains(ip) returns
ContainsReturn ==
    /\ pc["hijack"] = <<"Contains", "ipPool">>
    /\ \E ip \in ContainsAddrs : ret' = [ok |-> PoolContains(ip)]
    /\ Goto("hijack", Idle)
    /\ UNCHANGED <<capacity, poolUsed, poolFault, records, ip2Domain,
                   nonProxyDomains, clock, servePc, tickNow, reloadPc, released,
                   recordsLock, npdLock>>

\* a goroutine calls IsNonProxyDomain or SetNonProxyDomain: c.npdLock.Lock()
BypassCall(op) ==
    /\ pc["bypass"] = Idle
    /\ Goto("bypass", <<op, "Lock">>)
    /\ UNCHANGED <<tableVars, recordsLock, npdLock>>

\* c.npdLock.Lock() of IsNonProxyDomain or SetNonProxyDomain returns
BypassLock ==
    /\ \E op \in BypassOps :
          /\ pc["bypass"] = <<op, "Lock">>
          /\ Goto("bypass", <<op, "locked">>)
    /\ npdLock = Unlocked
    /\ npdLock' = "bypass"
    /\ UNCHANGED <<tableVars, recordsLock>>

\* IsNonProxyDomain: the lookup, and the deferred c.npdLock.Unlock()
IsNonProxyDomainLocked ==
    /\ pc["bypass"] = <<"IsNonProxyDomain", "locked">>
    /\ \E d \in NpdDomains : IsNonProxyDomain(d)
    /\ npdLock' = Unlocked
    /\ Goto("bypass", Idle)
    /\ UNCHANGED recordsLock

\* SetNonProxyDomain: the assignment, and the deferred c.npdLock.Unlock()
SetNonProxyDomainLocked ==
    /\ pc["bypass"] = <<"SetNonProxyDomain", "locked">>
    /\ \E d \in NpdDomains, t \in NpdTTLs : SetNonProxyDomain(d, t)
    /\ npdLock' = Unlocked
    /\ Goto("bypass", Idle)
    /\ UNCHANGED recordsLock

\* Serve: a tick arrives; clearExpiredDomain(now) is at c.recordsLock.Lock()
ServeTickCall ==
    /\ pc["serve"] = ServeIdle
    /\ ServeTick
    /\ Goto("serve", <<"clearExpiredDomain", "Lock">>)
    /\ UNCHANGED <<recordsLock, npdLock>>

\* c.recordsLock.Lock() of clearExpiredDomain returns
ClearExpiredDomainLock ==
    /\ pc["serve"] = <<"clearExpiredDomain", "Lock">>
    /\ recordsLock = Unlocked
    /\ recordsLock' = "serve"
    /\ Goto("serve", <<"clearExpiredDomain", "locked">>)
    /\ UNCHANGED <<tableVars, npdLock>>

\* clearExpiredDomain that returns without c.recordsLock.Unlock()
ClearExpiredDomainNoUnlock ==
    /\ pc["serve"] = <<"clearExpiredDomain", "locked">>
    /\ ServeRecords
    /\ Goto("serve", <<"clearExpiredNonProxyDomain", "Lock">>)
    /\ UNCHANGED <<recordsLock, npdLock>>

\* clearExpiredDomain: c.ipPool.Capacity(), the sweep with c.ipPool.Release,
\* and the deferred c.recordsLock.Unlock(); then clearExpiredNonProxyDomain
\* is at c.npdLock.Lock()
ClearExpiredDomainLocked ==
    /\ pc["serve"] = <<"clearExpiredDomain", "locked">>
    /\ ServeRecords
    /\ recordsLock' = Unlocked
    /\ Goto("serve", <<"clearExpiredNonProxyDomain", "Lock">>)
    /\ UNCHANGED npdLock

\* c.npdLock.Lock() of clearExpiredNonProxyDomain returns
ClearExpiredNonProxyDomainLock ==
    /\ pc["serve"] = <<"clearExpiredNonProxyDomain", "Lock">>
    /\ npdLock = Unlocked
    /\ npdLock' = "serve"
    /\ Goto("serve", <<"clearExpiredNonProxyDomain", "locked">>)
    /\ UNCHANGED <<tableVars, recordsLock>>

\* clearExpiredNonProxyDomain: the sweep and the deferred c.npdLock.Unlock();
\* Serve is back at its range over tick
ClearExpiredNonProxyDomainLocked ==
    /\ pc["serve"] = <<"clearExpiredNonProxyDomain", "locked">>
    /\ ServeNonProxy
    /\ npdLock' = Unlocked
    /\ Goto("serve", ServeIdle)
    /\ UNCHANGED recordsLock

\* a goroutine calls Reload and arrives at c.npdLock.Lock()
ReloadCall ==
    /\ pc["reload"] = Idle
    /\ Goto("reload", <<"Reload", "npdLock.Lock">>)
    /\ UNCHANGED <<tableVars, recordsLock, npdLock>>

\* Reload: c.npdLock.Lock() returns
ReloadNpdLock ==
    /\ pc["reload"] = <<"Reload", "npdLock.Lock">>
    /\ npdLock = Unlocked
    /\ npdLock' = "reload"
    /\ Goto("reload", <<"Reload", "npdLock locked">>)
    /\ UNCHANGED <<tableVars, recordsLock>>

\* Reload: the non proxy set is cleared; the goroutine, npdLock still held,
\* arrives at c.recordsLock.Lock()
ReloadNpdLocked ==
    /\ pc["reload"] = <<"Reload", "npdLock locked">>
    /\ ReloadNonProxy
    /\ Goto("reload", <<"Reload", "recordsLock.Lock">>)
    /\ UNCHANGED <<recordsLock, npdLock>>

\* Reload: c.recordsLock.Lock() returns
ReloadRecordsLock ==
    /\ pc["reload"] = <<"Reload", "recordsLock.Lock">>
    /\ recordsLock = Unlocked
    /\ recordsLock' = "reload"
    /\ Goto("reload", <<"Reload", "recordsLock locked">>)
    /\ UNCHANGED <<tableVars, npdLock>>

\* Reload: every record deleted, c.ipPool.Release for each; then the two
\* deferred calls, c.recordsLock.Unlock() and c.npdLock.Unlock()
ReloadRecordsLocked ==
    /\ pc["reload"] = <<"Reload", "recordsLock locked">>
    /\ ReloadRecords
    /\ recordsLock' = Unlocked
    /\ npdLock' = Unlocked
    /\ Goto("reload", Idle)

InitLocks ==
    /\ recordsLock = Unlocked
    /\ npdLock = Unlocked
    /\ pc = [t \in LockThreads |-> IF t = "serve" THEN ServeIdle ELSE Idle]

----------------------------------------------------------------------------
(* DomainRecord.SetRealIP on one record.  A net.IP is a slice: nil is the   *)
(* empty one, an address of an A record is a slice of one number.  A        *)
(* message is its answer list, each item a resource record of some type.    *)

MaxAnswer == 3     \* the longest answer list
MaxRealAddr == 2   \* how many different addresses the A records carry

NilIP == <<>>

ARecords == {[Rrtype |-> "A", A |-> <<a>>] : a \in 1..MaxRealAddr}

OtherRecords == {[Rrtype |-> "AAAA"], [Rrtype |-> "CNAME"]}

RECURSIVE AnswerLists(_)
AnswerLists(n) ==
    IF n = 0 THEN {<<>>}
    ELSE LET shorter == AnswerLists(n - 1)
         IN  shorter \cup {Append(l, rr) : l \in {k \in shorter : Len(k) = n - 1},
                                           rr \in ARecords \cup OtherRecords}

Messages == AnswerLists(MaxAnswer)

\* The loop over msg.Answer, from item i on, with ip as the loop has left it.
\* The break of the case leaves the switch, not the loop: the range goes on
\* to the next item.
RECURSIVE RangeAnswer(_, _, _)
RangeAnswer(answer, i, ip) ==
    IF i > Len(answer) THEN ip
    ELSE RangeAnswer(answer, i + 1,
                     IF answer[i].Rrtype = "A" THEN answer[i].A ELSE ip)

SetRealIP(m) ==
    /\ msg' = m
    /\ RealIP' = IF RealIP # NilIP THEN RealIP ELSE RangeAnswer(m, 1, NilIP)

InitRealIP ==
    /\ RealIP = NilIP
    /\ msg = <<>>

----------------------------------------------------------------------------
(* TCPTunnel: Run, the two pumps, Close and a caller of Close from outside. *)
(* Every statement that reads or writes state shared between goroutines is *)
(* a step of its own.                                                      *)

NoReason == <<>>   \* Close(nil)
NoError == "nil"

\* the errors of remoteConn.Read and remoteConn.Write
RemoteReadErrors ==
    {"timeout", "connection reset", "EOF", "use of closed network connection", "other"}
RemoteWriteErrors ==
    {"broken pipe", "EOF", "use of closed network connection", "other"}
\* the errors of localEndpoint.Read and localEndpoint.Write
LocalErrors ==
    {"ErrWouldBlock", "ErrClosedForSend", "ErrClosedForReceive", "closed", "other"}

\* package util: not among the sources; modelled from the design text.
IsTimeout(err) == err = "timeout"
IsConnectionReset(err) == err = "connection reset"
IsEOF(err) == err = "EOF"
IsBrokenPipe(err) == err = "broken pipe"
IsClosed(err) == err = "closed"

\* what remoteConn.Read can fail with: once the connection is closed, that only
RemoteReadFails ==
    IF remoteClosed > 0
    THEN {"use of closed network connection"}
    ELSE RemoteReadErrors \ {"use of closed network connection"}

RemoteWriteFails ==
    IF remoteClosed > 0
    THEN {"use of closed network connection"}
    ELSE RemoteWriteErrors \ {"use of closed network connection"}

\* what the local endpoint can fail with: once it is closed it no longer blocks
LocalFails ==
    IF localClosed > 0 THEN LocalErrors \ {"ErrWouldBlock"} ELSE LocalErrors

\* the n bytes a read returns: the bytes of the stream that follow those read
\* so far, each byte named by its place in the stream
NextBytes(read, n) == [i \in 1..n |-> Len(read) + i]

\* chunk[0:n], the bytes a write took, and chunk[n:], the bytes left
Taken(chunk, n) == SubSeq(chunk, 1, n)
Rest(chunk, n) == SubSeq(chunk, n + 1, Len(chunk))

\* a Close whose body goes to the cancellation before it has set the statuses
OnceEnterCancelFirst(who, reason) ==
    /\ closeOne = "new"
    /\ closeOne' = "running"
    /\ closer' = who
    /\ closePc' = "cancel"
    /\ IF reason # NoReason
       THEN /\ closeLogs' = closeLogs + 1
            /\ logged' = logged \cup {<<"close", reason>>}
       ELSE UNCHANGED <<closeLogs, logged>>

\* closeOne.Do(func() {...}) by the first caller, up to the log of the reason
OnceEnter(who, reason) ==
    /\ closeOne = "new"
    /\ closeOne' = "running"
    /\ closer' = who
    /\ closePc' = "setLocal"
    /\ IF reason # NoReason
       THEN /\ closeLogs' = closeLogs + 1
            /\ logged' = logged \cup {<<"close", reason>>}
       ELSE UNCHANGED <<closeLogs, logged>>

\* Run: tcpTunnel.ctx, tcpTunnel.ctxCancel = context.WithCancel(...)
RunStart ==
    /\ ~panicked
    /\ runPc = "new"
    /\ ctxSet' = TRUE
    /\ runPc' = "spawnRemote"
    /\ UNCHANGED <<ctxDone, localEndpointStatus, remoteStatus, closeOne, closer,
                   closePc, remotePc, remoteErr, remoteReason, rChunk, localPc,
                   localReason, lChunk, extPc, extCalls, localClosed, remoteClosed,
                   closeLogs, logged, panicked, remoteRead, localWritten, localRead,
                   remoteWritten, teardown>>

\* Run: wgw.Wrap(readFromRemoteWriteToLocal)
RunSpawnRemote ==
    /\ ~panicked
    /\ runPc = "spawnRemote"
    /\ remotePc' = "select"
    /\ runPc' = "spawnLocal"
    /\ UNCHANGED <<ctxSet, ctxDone, localEndpointStatus, remoteStatus, closeOne,
                   closer, closePc, remoteErr, remoteReason, rChunk, localPc,
                   localReason, lChunk, extPc, extCalls, localClosed, remoteClosed,
                   closeLogs, logged, panicked, remoteRead, localWritten, localRead,
                   remoteWritten, teardown>>

\* Run: wgw.Wrap(readFromLocalWriteToRemote)
RunSpawnLocal ==
    /\ ~panicked
    /\ runPc = "spawnLocal"
    /\ localPc' = "select"
    /\ runPc' = "setRemote"
    /\ UNCHANGED <<ctxSet, ctxDone, localEndpointStatus, remoteStatus, closeOne,
                   closer, closePc, remotePc, remoteErr, remoteReason, rChunk,
                   localReason, lChunk, extPc, extCalls, localClosed, remoteClosed,
                   closeLogs, logged, panicked, remoteRead, localWritten, localRead,
                   remoteWritten, teardown>>

\* Run: tcpTunnel.SetRemoteStatus(StatusProxying)
RunSetRemote ==
    /\ ~panicked
    /\ runPc = "setRemote"
    /\ remoteStatus' = "Proxying"
    /\ runPc' = "setLocal"
    /\ UNCHANGED <<ctxSet, ctxDone, localEndpointStatus, closeOne, closer, closePc,
                   remotePc, remoteErr, remoteReason, rChunk, localPc, localReason,
                   lChunk, extPc, extCalls, localClosed, remoteClosed, closeLogs,
                   logged, panicked, remoteRead, localWritten, localRead,
                   remoteWritten, teardown>>

\* Run: tcpTunnel.SetLocalEndpointStatus(StatusProxying)
RunSetLocal ==
    /\ ~panicked
    /\ runPc = "setLocal"
    /\ localEndpointStatus' = "Proxying"
    /\ runPc' = "wait"
    /\ UNCHANGED <<ctxSet, ctxDone, remoteStatus, closeOne, closer, closePc,
                   remotePc, remoteErr, remoteReason, rChunk, localPc, localReason,
                   lChunk, extPc, extCalls, localClosed, remoteClosed, closeLogs,
                   logged, panicked, remoteRead, localWritten, localRead,
                   remoteWritten, teardown>>

\* Run: wgw.WaitGroup.Wait()
RunWait ==
    /\ ~panicked
    /\ runPc = "wait"
    /\ remotePc = "done"
    /\ localPc = "done"
    /\ runPc' = "close"
    /\ UNCHANGED <<ctxSet, ctxDone, localEndpointStatus, remoteStatus, closeOne,
                   closer, closePc, remotePc, remoteErr, remoteReason, rChunk,
                   localPc, localReason, lChunk, extPc, extCalls, localClosed,
                   remoteClosed, closeLogs, logged, panicked, remoteRead,
                   localWritten, localRead, remoteWritten, teardown>>

\* Run: tcpTunnel.Close(nil), first through closeOne
RunCloseEnter ==
    /\ ~panicked
    /\ runPc = "close"
    /\ OnceEnter("run", NoReason)
    /\ UNCHANGED <<runPc, ctxSet, ctxDone, localEndpointStatus, remoteStatus,
                   remotePc, remoteErr, remoteReason, rChunk, localPc, localReason,
                   lChunk, extPc, extCalls, localClosed, remoteClosed, panicked,
                   remoteRead, localWritten, localRead, remoteWritten, teardown>>

\* Run: tcpTunnel.Close(nil) returns
RunCloseReturn ==
    /\ ~panicked
    /\ runPc = "close"
    /\ closeOne = "done"
    /\ runPc' = "done"
    /\ UNCHANGED <<ctxSet, ctxDone, localEndpointStatus, remoteStatus, closeOne,
                   closer, closePc, remotePc, remoteErr, remoteReason, rChunk,
                   localPc, localReason, lChunk, extPc, extCalls, localClosed,
                   remoteClosed, closeLogs, logged, panicked, remoteRead,
                   localWritten, localRead, remoteWritten, teardown>>

(* Close *)

\* tcpTunnel.SetLocalEndpointStatus(StatusClosed)
CloseSetLocal ==
    /\ ~panicked
    /\ closeOne = "running"
    /\ closePc = "setLocal"
    /\ localEndpointStatus' = "Closed"
    /\ teardown' = Append(teardown, "local status")
    /\ closePc' = "setRemote"
    /\ UNCHANGED <<runPc, ctxSet, ctxDone, remoteStatus, closeOne, closer, remotePc,
                   remoteErr, remoteReason, rChunk, localPc, localReason, lChunk,
                   extPc, extCalls, localClosed, remoteClosed, closeLogs, logged,
                   panicked, remoteRead, localWritten, localRead, remoteWritten>>

\* tcpTunnel.SetRemoteStatus(StatusClosed)
CloseSetRemote ==
    /\ ~panicked
    /\ closeOne = "running"
    /\ closePc = "setRemote"
    /\ remoteStatus' = "Closed"
    /\ teardown' = Append(teardown, "remote status")
    /\ closePc' = "cancel"
    /\ UNCHANGED <<runPc, ctxSet, ctxDone, localEndpointStatus, closeOne, closer,
                   remotePc, remoteErr, remoteReason, rChunk, localPc, localReason,
                   lChunk, extPc, extCalls, localClosed, remoteClosed, closeLogs,
                   logged, panicked, remoteRead, localWritten, localRead,
                   remoteWritten>>

\* tcpTunnel.ctxCancel(); a nil ctxCancel panics, and closeOne is done all the same
CloseCancel ==
    /\ ~panicked
    /\ closeOne = "running"
    /\ closePc = "cancel"
    /\ IF ctxSet
       THEN /\ ctxDone' = TRUE
            /\ teardown' = Append(teardown, "cancel")
            /\ closePc' = "closeLocal"
            /\ UNCHANGED <<panicked, closeOne>>
       ELSE /\ panicked' = TRUE
            /\ closeOne' = "done"
            /\ closePc' = "idle"
            /\ UNCHANGED <<ctxDone, teardown>>
    /\ UNCHANGED <<runPc, ctxSet, localEndpointStatus, remoteStatus, closer,
                   remotePc, remoteErr, remoteReason, rChunk, localPc, localReason,
                   lChunk, extPc, extCalls, localClosed, remoteClosed, closeLogs,
                   logged, remoteRead, localWritten, localRead, remoteWritten>>

\* tcpTunnel.localEndpoint.Close()
CloseLocalEndpoint ==
    /\ ~panicked
    /\ closeOne = "running"
    /\ closePc = "closeLocal"
    /\ localClosed' = localClosed + 1
    /\ teardown' = Append(teardown, "local endpoint")
    /\ closePc' = "closeRemote"
    /\ UNCHANGED <<runPc, ctxSet, ctxDone, localEndpointStatus, remoteStatus,
                   closeOne, closer, remotePc, remoteErr, remoteReason, rChunk,
                   localPc, localReason, lChunk, extPc, extCalls, remoteClosed,
                   closeLogs, logged, panicked, remoteRead, localWritten, localRead,
                   remoteWritten>>

\* tcpTunnel.remoteConn.Close(), and closeOne is done
CloseRemoteConn ==
    /\ ~panicked
    /\ closeOne = "running"
    /\ closePc = "closeRemote"
    /\ remoteClosed' = remoteClosed + 1
    /\ teardown' = Append(teardown, "remote conn")
    /\ closeOne' = "done"
    /\ closePc' = "idle"
    /\ UNCHANGED <<runPc, ctxSet, ctxDone, localEndpointStatus, remoteStatus, closer,
                   remotePc, remoteErr, remoteReason, rChunk, localPc, localReason,
                   lChunk, extPc, extCalls, localClosed, closeLogs, logged, panicked,
                   remoteRead, localWritten, localRead, remoteWritten>>

(* readFromRemoteWriteToLocal *)

\* select { case <-ctx.Done(): break; default: } and SetReadDeadline
RemoteSelect ==
    /\ ~panicked
    /\ remotePc = "select"
    /\ remotePc' = IF ctxDone THEN "done" ELSE "read"
    /\ UNCHANGED <<runPc, ctxSet, ctxDone, localEndpointStatus, remoteStatus,
                   closeOne, closer, closePc, remoteErr, remoteReason, rChunk,
                   localPc, localReason, lChunk, extPc, extCalls, localClosed,
                   remoteClosed, closeLogs, logged, panicked, remoteRead,
                   localWritten, localRead, remoteWritten, teardown>>

\* n, err := remoteConn.Read(buf) with err == nil
RemoteReadData(n) ==
    /\ ~panicked
    /\ remotePc = "read"
    /\ remoteClosed = 0
    /\ Len(remoteRead) + n <= MaxStream
    /\ rChunk' = NextBytes(remoteRead, n)
    /\ remoteRead' = remoteRead \o rChunk'
    /\ remoteErr' = NoError
    /\ remotePc' = "check"
    /\ UNCHANGED <<runPc, ctxSet, ctxDone, localEndpointStatus, remoteStatus,
                   closeOne, closer, closePc, remoteReason, localPc, localReason,
                   lChunk, extPc, extCalls, localClosed, remoteClosed, closeLogs,
                   logged, panicked, localWritten, localRead, remoteWritten,
                   teardown>>

\* the read error handled with the test turned around
RemoteReadErrorInverted(err) ==
    /\ ~panicked
    /\ remotePc = "read"
    /\ err \in RemoteReadFails
    /\ remoteErr' = err
    /\ IF IsTimeout(err) \/ IsConnectionReset(err) \/ IsEOF(err)
       THEN /\ logged' = logged \cup {<<"remote read", err>>}
            /\ remoteReason' = <<err>>
       ELSE /\ logged' = logged
            /\ remoteReason' = NoReason
    /\ remotePc' = "close"
    /\ UNCHANGED <<runPc, ctxSet, ctxDone, localEndpointStatus, remoteStatus,
                   closeOne, closer, closePc, rChunk, localPc, localReason, lChunk,
                   extPc, extCalls, localClosed, remoteClosed, closeLogs, panicked,
                   remoteRead, localWritten, localRead, remoteWritten, teardown>>

\* n, err := remoteConn.Read(buf) with err != nil, up to the call of Close
RemoteReadError(err) ==
    /\ ~panicked
    /\ remotePc = "read"
    /\ err \in RemoteReadFails
    /\ remoteErr' = err
    /\ IF ~IsTimeout(err) /\ ~IsConnectionReset(err) /\ ~IsEOF(err)
       THEN /\ logged' = logged \cup {<<"remote read", err>>}
            /\ remoteReason' = <<err>>
       ELSE /\ logged' = logged
            /\ remoteReason' = NoReason
    /\ remotePc' = "close"
    /\ UNCHANGED <<runPc, ctxSet, ctxDone, localEndpointStatus, remoteStatus,
                   closeOne, closer, closePc, rChunk, localPc, localReason, lChunk,
                   extPc, extCalls, localClosed, remoteClosed, closeLogs, panicked,
                   remoteRead, localWritten, localRead, remoteWritten, teardown>>

\* if n > 0 && tcpTunnel.RemoteStatus() != StatusClosed
RemoteCheck ==
    /\ ~panicked
    /\ remotePc = "check"
    /\ IF Len(rChunk) > 0 /\ remoteStatus # "Closed"
       THEN /\ remotePc' = "write"
            /\ rChunk' = rChunk
       ELSE /\ remotePc' = "done"
            /\ rChunk' = <<>>
    /\ UNCHANGED <<runPc, ctxSet, ctxDone, localEndpointStatus, remoteStatus,
                   closeOne, closer, closePc, remoteErr, remoteReason, localPc,
                   localReason, lChunk, extPc, extCalls, localClosed, remoteClosed,
                   closeLogs, logged, panicked, remoteRead, localWritten, localRead,
                   remoteWritten, teardown>>

\* a write loop that retries the whole chunk after a short write
RemoteWriteSomeNoAdvance(m, wouldBlock) ==
    /\ ~panicked
    /\ remotePc = "write"
    /\ localClosed = 0
    /\ m \in 0..Len(rChunk)
    /\ wouldBlock \in BOOLEAN
    /\ wouldBlock => m < Len(rChunk)
    /\ localWritten' = localWritten \o Taken(rChunk, m)
    /\ rChunk' = IF m < Len(rChunk) THEN rChunk ELSE <<>>
    /\ remotePc' = IF m < Len(rChunk) THEN "write" ELSE "select"
    /\ UNCHANGED <<runPc, ctxSet, ctxDone, localEndpointStatus, remoteStatus,
                   closeOne, closer, closePc, remoteErr, remoteReason, localPc,
                   localReason, lChunk, extPc, extCalls, localClosed, remoteClosed,
                   closeLogs, logged, panicked, remoteRead, localRead, remoteWritten,
                   teardown>>

\* localEndpoint.Write: m bytes taken, with err == nil or ErrWouldBlock
RemoteWriteSome(m, wouldBlock) ==
    /\ ~panicked
    /\ remotePc = "write"
    /\ localClosed = 0
    /\ m \in 0..Len(rChunk)
    /\ wouldBlock \in BOOLEAN
    /\ wouldBlock => m < Len(rChunk)
    /\ localWritten' = localWritten \o Taken(rChunk, m)
    /\ rChunk' = Rest(rChunk, m)
    /\ remotePc' = IF m < Len(rChunk) THEN "write" ELSE "select"
    /\ UNCHANGED <<runPc, ctxSet, ctxDone, localEndpointStatus, remoteStatus,
                   closeOne, closer, closePc, remoteErr, remoteReason, localPc,
                   localReason, lChunk, extPc, extCalls, localClosed, remoteClosed,
                   closeLogs, logged, panicked, remoteRead, localRead, remoteWritten,
                   teardown>>

\* localEndpoint.Write fails (ErrWouldBlock: with the whole chunk taken), up to the call of Close
RemoteWriteError(err) ==
    /\ ~panicked
    /\ remotePc = "write"
    /\ err \in LocalFails
    /\ localWritten' = IF err = "ErrWouldBlock" THEN localWritten \o rChunk ELSE localWritten
    /\ rChunk' = <<>>
    /\ IF err = "ErrClosedForSend" \/ err = "ErrClosedForReceive"
       THEN /\ remotePc' = "done"
            /\ UNCHANGED <<logged, remoteReason>>
       ELSE IF IsClosed(err)
       THEN /\ remotePc' = "close"
            /\ remoteReason' = NoReason
            /\ logged' = logged
       ELSE /\ remotePc' = "close"
            /\ remoteReason' = <<err>>
            /\ logged' = logged \cup {<<"local write", err>>}
    /\ UNCHANGED <<runPc, ctxSet, ctxDone, localEndpointStatus, remoteStatus,
                   closeOne, closer, closePc, remoteErr, localPc, localReason,
                   lChunk, extPc, extCalls, localClosed, remoteClosed, closeLogs,
                   panicked, remoteRead, localRead, remoteWritten, teardown>>

\* the pump's tcpTunnel.Close(reason), first through closeOne
RemoteCloseEnter ==
    /\ ~panicked
    /\ remotePc = "close"
    /\ OnceEnter("remote", remoteReason)
    /\ UNCHANGED <<runPc, ctxSet, ctxDone, localEndpointStatus, remoteStatus,
                   remotePc, remoteErr, remoteReason, rChunk, localPc, localReason,
                   lChunk, extPc, extCalls, localClosed, remoteClosed, panicked,
                   remoteRead, localWritten, localRead, remoteWritten, teardown>>

\* the pump's tcpTunnel.Close(reason) returns, and the pump after it
RemoteCloseReturn ==
    /\ ~panicked
    /\ remotePc = "close"
    /\ closeOne = "done"
    /\ remotePc' = "done"
    /\ UNCHANGED <<runPc, ctxSet, ctxDone, localEndpointStatus, remoteStatus,
                   closeOne, closer, closePc, remoteErr, remoteReason, rChunk,
                   localPc, localReason, lChunk, extPc, extCalls, localClosed,
                   remoteClosed, closeLogs, logged, panicked, remoteRead,
                   localWritten, localRead, remoteWritten, teardown>>

(* readFromLocalWriteToRemote *)

\* select { case <-ctx.Done(): break; default: }
LocalSelect ==
    /\ ~panicked
    /\ localPc = "select"
    /\ localPc' = IF ctxDone THEN "done" ELSE "read"
    /\ UNCHANGED <<runPc, ctxSet, ctxDone, localEndpointStatus, remoteStatus,
                   closeOne, closer, closePc, remotePc, remoteErr, remoteReason,
                   rChunk, localReason, lChunk, extPc, extCalls, localClosed,
                   remoteClosed, closeLogs, logged, panicked, remoteRead,
                   localWritten, localRead, remoteWritten, teardown>>

\* v, _, err := localEndpoint.Read(nil) with err == nil
LocalReadData(n) ==
    /\ ~panicked
    /\ localPc = "read"
    /\ localClosed = 0
    /\ Len(localRead) + n <= MaxStream
    /\ lChunk' = NextBytes(localRead, n)
    /\ localRead' = localRead \o lChunk'
    /\ localPc' = "check"
    /\ UNCHANGED <<runPc, ctxSet, ctxDone, localEndpointStatus, remoteStatus,
                   closeOne, closer, closePc, remotePc, remoteErr, remoteReason,
                   rChunk, localReason, extPc, extCalls, localClosed, remoteClosed,
                   closeLogs, logged, panicked, remoteRead, localWritten,
                   remoteWritten, teardown>>

\* a read that treats closed for send or receive like any other error
LocalReadErrorNoHalfClose(err) ==
    /\ ~panicked
    /\ localPc = "read"
    /\ err \in LocalFails
    /\ IF err = "ErrWouldBlock"
       THEN /\ localPc' = "wait"
            /\ UNCHANGED <<logged, localReason>>
       ELSE IF IsClosed(err)
       THEN /\ localPc' = "close"
            /\ localReason' = NoReason
            /\ logged' = logged
       ELSE /\ localPc' = "close"
            /\ localReason' = <<"read from local failed, ", err>>
            /\ logged' = logged \cup {<<"local read", err>>}
    /\ UNCHANGED <<runPc, ctxSet, ctxDone, localEndpointStatus, remoteStatus,
                   closeOne, closer, closePc, remotePc, remoteErr, remoteReason,
                   rChunk, lChunk, extPc, extCalls, localClosed, remoteClosed,
                   closeLogs, panicked, remoteRead, localWritten, localRead,
                   remoteWritten, teardown>>

\* localEndpoint.Read fails, up to the wait or the call of Close
LocalReadError(err) ==
    /\ ~panicked
    /\ localPc = "read"
    /\ err \in LocalFails
    /\ IF err = "ErrWouldBlock"
       THEN /\ localPc' = "wait"
            /\ UNCHANGED <<logged, localReason>>
       ELSE IF err = "ErrClosedForSend" \/ err = "ErrClosedForReceive"
       THEN /\ localPc' = "done"
            /\ UNCHANGED <<logged, localReason>>
       ELSE IF IsClosed(err)
       THEN /\ localPc' = "close"
            /\ localReason' = NoReason
            /\ logged' = logged
       ELSE /\ localPc' = "close"
            /\ localReason' = <<"read from local failed, ", err>>
            /\ logged' = logged \cup {<<"local read", err>>}
    /\ UNCHANGED <<runPc, ctxSet, ctxDone, localEndpointStatus, remoteStatus,
                   closeOne, closer, closePc, remotePc, remoteErr, remoteReason,
                   rChunk, lChunk, extPc, extCalls, localClosed, remoteClosed,
                   closeLogs, panicked, remoteRead, localWritten, localRead,
                   remoteWritten, teardown>>

\* a wait that listens to notifyCh alone
LocalWaitNoCancel ==
    /\ ~panicked
    /\ localPc = "wait"
    /\ ctxDone
    /\ FALSE
    /\ localPc' = "done"
    /\ UNCHANGED <<runPc, ctxSet, ctxDone, localEndpointStatus, remoteStatus,
                   closeOne, closer, closePc, remotePc, remoteErr, remoteReason,
                   rChunk, localReason, lChunk, extPc, extCalls, localClosed,
                   remoteClosed, closeLogs, logged, panicked, remoteRead,
                   localWritten, localRead, remoteWritten, teardown>>

\* select { case <-ctx.Done(): break readFromLocal
LocalWaitDone ==
    /\ ~panicked
    /\ localPc = "wait"
    /\ ctxDone
    /\ localPc' = "done"
    /\ UNCHANGED <<runPc, ctxSet, ctxDone, localEndpointStatus, remoteStatus,
                   closeOne, closer, closePc, remotePc, remoteErr, remoteReason,
                   rChunk, localReason, lChunk, extPc, extCalls, localClosed,
                   remoteClosed, closeLogs, logged, panicked, remoteRead,
                   localWritten, localRead, remoteWritten, teardown>>

\* select { case <-notifyCh: continue readFromLocal
LocalWaitNotified ==
    /\ ~panicked
    /\ localPc = "wait"
    /\ localPc' = "select"
    /\ UNCHANGED <<runPc, ctxSet, ctxDone, localEndpointStatus, remoteStatus,
                   closeOne, closer, closePc, remotePc, remoteErr, remoteReason,
                   rChunk, localReason, lChunk, extPc, extCalls, localClosed,
                   remoteClosed, closeLogs, logged, panicked, remoteRead,
                   localWritten, localRead, remoteWritten, teardown>>

\* if tcpTunnel.LocalEndpointStatus() != StatusClosed; an empty v is written at once
LocalCheck ==
    /\ ~panicked
    /\ localPc = "check"
    /\ localPc' = IF localEndpointStatus = "Closed" THEN "done"
                  ELSE IF Len(lChunk) <= 0 THEN "select" ELSE "write"
    /\ lChunk' = IF localEndpointStatus = "Closed" THEN <<>> ELSE lChunk
    /\ UNCHANGED <<runPc, ctxSet, ctxDone, localEndpointStatus, remoteStatus,
                   closeOne, closer, closePc, remotePc, remoteErr, remoteReason,
                   rChunk, localReason, extPc, extCalls, localClosed, remoteClosed,
                   closeLogs, logged, panicked, remoteRead, localWritten, localRead,
                   remoteWritten, teardown>>

\* n, err := remoteConn.Write(v) with err == nil
LocalWriteSome(n) ==
    /\ ~panicked
    /\ localPc = "write"
    /\ remoteClosed = 0
    /\ n \in 0..Len(lChunk)
    /\ remoteWritten' = remoteWritten \o Taken(lChunk, n)
    /\ lChunk' = Rest(lChunk, n)
    /\ localPc' = IF n < Len(lChunk) THEN "write" ELSE "select"
    /\ UNCHANGED <<runPc, ctxSet, ctxDone, localEndpointStatus, remoteStatus,
                   closeOne, closer, closePc, remotePc, remoteErr, remoteReason,
                   rChunk, localReason, extPc, extCalls, localClosed, remoteClosed,
                   closeLogs, logged, panicked, remoteRead, localWritten, localRead,
                   teardown>>

\* n, err := remoteConn.Write(v) with err != nil and n bytes taken, up to the call of Close
LocalWriteError(err, n) ==
    /\ ~panicked
    /\ localPc = "write"
    /\ err \in RemoteWriteFails
    /\ n \in 0..(Len(lChunk) - 1)
    /\ remoteWritten' = remoteWritten \o Taken(lChunk, n)
    /\ lChunk' = <<>>
    /\ localPc' = "close"
    /\ IF IsBrokenPipe(err) \/ IsEOF(err)
       THEN /\ localReason' = NoReason
            /\ logged' = logged
       ELSE /\ localReason' = <<err>>
            /\ logged' = logged \cup {<<"remote write", err>>}
    /\ UNCHANGED <<runPc, ctxSet, ctxDone, localEndpointStatus, remoteStatus,
                   closeOne, closer, closePc, remotePc, remoteErr, remoteReason,
                   rChunk, extPc, extCalls, localClosed, remoteClosed, closeLogs,
                   panicked, remoteRead, localWritten, localRead, teardown>>

\* the pump's tcpTunnel.Close(reason), first through closeOne
LocalCloseEnter ==
    /\ ~panicked
    /\ localPc = "close"
    /\ OnceEnter("local", localReason)
    /\ UNCHANGED <<runPc, ctxSet, ctxDone, localEndpointStatus, remoteStatus,
                   remotePc, remoteErr, remoteReason, rChunk, localPc, localReason,
                   lChunk, extPc, extCalls, localClosed, remoteClosed, panicked,
                   remoteRead, localWritten, localRead, remoteWritten, teardown>>

\* the pump's tcpTunnel.Close(reason) returns, and the pump after it
LocalCloseReturn ==
    /\ ~panicked
    /\ localPc = "close"
    /\ closeOne = "done"
    /\ localPc' = "done"
    /\ UNCHANGED <<runPc, ctxSet, ctxDone, localEndpointStatus, remoteStatus,
                   closeOne, closer, closePc, remotePc, remoteErr, remoteReason,
                   rChunk, localReason, lChunk, extPc, extCalls, localClosed,
                   remoteClosed, closeLogs, logged, panicked, remoteRead,
                   localWritten, localRead, remoteWritten, teardown>>

(* a caller of the exported Close from outside the tunnel *)

\* tcpTunnel.Close(reason) is called
ExtCall ==
    /\ ~panicked
    /\ extPc = "idle"
    /\ extCalls < MaxExtClose
    /\ extCalls' = extCalls + 1
    /\ extPc' = "close"
    /\ UNCHANGED <<runPc, ctxSet, ctxDone, localEndpointStatus, remoteStatus,
                   closeOne, closer, closePc, remotePc, remoteErr, remoteReason,
                   rChunk, localPc, localReason, lChunk, localClosed, remoteClosed,
                   closeLogs, logged, panicked, remoteRead, localWritten, localRead,
                   remoteWritten, teardown>>

\* that call, first through closeOne
ExtCloseEnter(reason) ==
    /\ ~panicked
    /\ extPc = "close"
    /\ OnceEnter("ext", reason)
    /\ UNCHANGED <<runPc, ctxSet, ctxDone, localEndpointStatus, remoteStatus,
                   remotePc, remoteErr, remoteReason, rChunk, localPc, localReason,
                   lChunk, extPc, extCalls, localClosed, remoteClosed, panicked,
                   remoteRead, localWritten, localRead, remoteWritten, teardown>>

\* that call returns
ExtCloseReturn ==
    /\ ~panicked
    /\ extPc = "close"
    /\ closeOne = "done"
    /\ extPc' = "idle"
    /\ UNCHANGED <<runPc, ctxSet, ctxDone, localEndpointStatus, remoteStatus,
                   closeOne, closer, closePc, remotePc, remoteErr, remoteReason,
                   rChunk, localPc, localReason, lChunk, extCalls, localClosed,
                   remoteClosed, closeLogs, logged, panicked, remoteRead,
                   localWritten, localRead, remoteWritten, teardown>>

\* NewTCP2Socks has returned a tunnel; nobody has called Run yet
InitTunnel ==
    /\ runPc = "new"
    /\ ctxSet = FALSE
    /\ ctxDone = FALSE
    /\ localEndpointStatus = "Unset"
    /\ remoteStatus = "Unset"
    /\ closeOne = "new"
    /\ closer = "nobody"
    /\ closePc = "idle"
    /\ remotePc = "off"
    /\ remoteErr = NoError
    /\ remoteReason = NoReason
    /\ rChunk = <<>>
    /\ localPc = "off"
    /\ localReason = NoReason
    /\ lChunk = <<>>
    /\ extPc = "idle"
    /\ extCalls = 0
    /\ localClosed = 0
    /\ remoteClosed = 0
    /\ closeLogs = 0
    /\ logged = {}
    /\ panicked = FALSE
    /\ remoteRead = <<>>
    /\ localWritten = <<>>
    /\ localRead = <<>>
    /\ remoteWritten = <<>>
    /\ teardown = <<>>

ExtReasons == {NoReason, <<"caller">>}

NextTunnel ==
    \/ RunStart /\ UNCHANGED <<tableVars, envVars, realVars, lockVars>>
    \/ RunSpawnRemote /\ UNCHANGED <<tableVars, envVars, realVars, lockVars>>
    \/ RunSpawnLocal /\ UNCHANGED <<tableVars, envVars, realVars, lockVars>>
    \/ RunSetRemote /\ UNCHANGED <<tableVars, envVars, realVars, lockVars>>
    \/ RunSetLocal /\ UNCHANGED <<tableVars, envVars, realVars, lockVars>>
    \/ RunWait /\ UNCHANGED <<tableVars, envVars, realVars, lockVars>>
    \/ RunCloseEnter /\ UNCHANGED <<tableVars, envVars, realVars, lockVars>>
    \/ RunCloseReturn /\ UNCHANGED <<tableVars, envVars, realVars, lockVars>>
    \/ CloseSetLocal /\ UNCHANGED <<tableVars, envVars, realVars, lockVars>>
    \/ CloseSetRemote /\ UNCHANGED <<tableVars, envVars, realVars, lockVars>>
    \/ CloseCancel /\ UNCHANGED <<tableVars, envVars, realVars, lockVars>>
    \/ CloseLocalEndpoint /\ UNCHANGED <<tableVars, envVars, realVars, lockVars>>
    \/ CloseRemoteConn /\ UNCHANGED <<tableVars, envVars, realVars, lockVars>>
    \/ RemoteSelect /\ UNCHANGED <<tableVars, envVars, realVars, lockVars>>
    \/ (\E n \in 0..MaxChunk : RemoteReadData(n)) /\ UNCHANGED <<tableVars, envVars, realVars, lockVars>>
    \/ (\E err \in RemoteReadErrors : RemoteReadError(err)) /\ UNCHANGED <<tableVars, envVars, realVars, lockVars>>
    \/ RemoteCheck /\ UNCHANGED <<tableVars, envVars, realVars, lockVars>>
    \/ (\E m \in 0..MaxChunk, wouldBlock \in BOOLEAN : RemoteWriteSome(m, wouldBlock)) /\ UNCHANGED <<tableVars, envVars, realVars, lockVars>>
    \/ (\E err \in LocalErrors : RemoteWriteError(err)) /\ UNCHANGED <<tableVars, envVars, realVars, lockVars>>
    \/ RemoteCloseEnter /\ UNCHANGED <<tableVars, envVars, realVars, lockVars>>
    \/ RemoteCloseReturn /\ UNCHANGED <<tableVars, envVars, realVars, lockVars>>
    \/ LocalSelect /\ UNCHANGED <<tableVars, envVars, realVars, lockVars>>
    \/ (\E n \in 0..MaxChunk : LocalReadData(n)) /\ UNCHANGED <<tableVars, envVars, realVars, lockVars>>
    \/ (\E err \in LocalErrors : LocalReadError(err)) /\ UNCHANGED <<tableVars, envVars, realVars, lockVars>>
    \/ LocalWaitDone /\ UNCHANGED <<tableVars, envVars, realVars, lockVars>>
    \/ LocalWaitNotified /\ UNCHANGED <<tableVars, envVars, realVars, lockVars>>
    \/ LocalCheck /\ UNCHANGED <<tableVars, envVars, realVars, lockVars>>
    \/ (\E n \in 0..MaxChunk : LocalWriteSome(n)) /\ UNCHANGED <<tableVars, envVars, realVars, lockVars>>
    \/ (\E err \in RemoteWriteErrors, n \in 0..MaxChunk : LocalWriteError(err, n)) /\ UNCHANGED <<tableVars, envVars, realVars, lockVars>>
    \/ LocalCloseEnter /\ UNCHANGED <<tableVars, envVars, realVars, lockVars>>
    \/ LocalCloseReturn /\ UNCHANGED <<tableVars, envVars, realVars, lockVars>>
    \/ ExtCall /\ UNCHANGED <<tableVars, envVars, realVars, lockVars>>
    \/ (\E reason \in ExtReasons : ExtCloseEnter(reason)) /\ UNCHANGED <<tableVars, envVars, realVars, lockVars>>
    \/ ExtCloseReturn /\ UNCHANGED <<tableVars, envVars, realVars, lockVars>>

\* a tunnel beside a table nobody uses
InitTunnelAlone == InitTable(TableCapacity) /\ InitEnv /\ InitTunnel /\ InitRealIP /\ InitLocks

SpecTunnel == InitTunnelAlone /\ [][NextTunnel]_vars

(* The tunnel under fair scheduling, with a local endpoint that has nothing *)
(* to read.  A goroutine that can take a step takes one: Run once it has    *)
(* been called, the body of Close, each pump.  A read of the remote         *)
(* connection returns, with data, an error or the deadline.  Nothing makes  *)
(* a readiness notification arrive, and nothing makes anybody call Run or   *)
(* Close.                                                                   *)

RunStep ==
    \/ RunSpawnRemote
    \/ RunSpawnLocal
    \/ RunSetRemote
    \/ RunSetLocal
    \/ RunWait
    \/ RunCloseEnter
    \/ RunCloseReturn

CloseStep ==
    \/ CloseSetLocal
    \/ CloseSetRemote
    \/ CloseCancel
    \/ CloseLocalEndpoint
    \/ CloseRemoteConn

RemoteStep ==
    \/ RemoteSelect
    \/ \E n \in 0..MaxChunk : RemoteReadData(n)
    \/ \E err \in RemoteReadErrors : RemoteReadError(err)
    \/ RemoteCheck
    \/ \E m \in 0..MaxChunk, wouldBlock \in BOOLEAN : RemoteWriteSome(m, wouldBlock)
    \/ \E err \in LocalErrors : RemoteWriteError(err)
    \/ RemoteCloseEnter
    \/ RemoteCloseReturn

\* the local pump while the local endpoint has nothing to read
LocalStep ==
    \/ LocalSelect
    \/ \E err \in LocalErrors : LocalReadError(err)
    \/ LocalWaitDone
    \/ LocalCloseEnter
    \/ LocalCloseReturn

FairTunnel ==
    /\ WF_tunnelVars(RunStep)
    /\ WF_tunnelVars(CloseStep)
    /\ WF_tunnelVars(RemoteStep)
    /\ WF_tunnelVars(LocalStep)

\* the tunnel while the local endpoint has nothing to read
NextTunnelIdle ==
    \/ RunStart /\ UNCHANGED <<tableVars, envVars, realVars, lockVars>>
    \/ RunSpawnRemote /\ UNCHANGED <<tableVars, envVars, realVars, lockVars>>
    \/ RunSpawnLocal /\ UNCHANGED <<tableVars, envVars, realVars, lockVars>>
    \/ RunSetRemote /\ UNCHANGED <<tableVars, envVars, realVars, lockVars>>
    \/ RunSetLocal /\ UNCHANGED <<tableVars, envVars, realVars, lockVars>>
    \/ RunWait /\ UNCHANGED <<tableVars, envVars, realVars, lockVars>>
    \/ RunCloseEnter /\ UNCHANGED <<tableVars, envVars, realVars, lockVars>>
    \/ RunCloseReturn /\ UNCHANGED <<tableVars, envVars, realVars, lockVars>>
    \/ CloseSetLocal /\ UNCHANGED <<tableVars, envVars, realVars, lockVars>>
    \/ CloseSetRemote /\ UNCHANGED <<tableVars, envVars, realVars, lockVars>>
    \/ CloseCancel /\ UNCHANGED <<tableVars, envVars, realVars, lockVars>>
    \/ CloseLocalEndpoint /\ UNCHANGED <<tableVars, envVars, realVars, lockVars>>
    \/ CloseRemoteConn /\ UNCHANGED <<tableVars, envVars, realVars, lockVars>>
    \/ RemoteSelect /\ UNCHANGED <<tableVars, envVars, realVars, lockVars>>
    \/ (\E n \in 0..MaxChunk : RemoteReadData(n)) /\ UNCHANGED <<tableVars, envVars, realVars, lockVars>>
    \/ (\E err \in RemoteReadErrors : RemoteReadError(err)) /\ UNCHANGED <<tableVars, envVars, realVars, lockVars>>
    \/ RemoteCheck /\ UNCHANGED <<tableVars, envVars, realVars, lockVars>>
    \/ (\E m \in 0..MaxChunk, wouldBlock \in BOOLEAN : RemoteWriteSome(m, wouldBlock)) /\ UNCHANGED <<tableVars, envVars, realVars, lockVars>>
    \/ (\E err \in LocalErrors : RemoteWriteError(err)) /\ UNCHANGED <<tableVars, envVars, realVars, lockVars>>
    \/ RemoteCloseEnter /\ UNCHANGED <<tableVars, envVars, realVars, lockVars>>
    \/ RemoteCloseReturn /\ UNCHANGED <<tableVars, envVars, realVars, lockVars>>
    \/ LocalSelect /\ UNCHANGED <<tableVars, envVars, realVars, lockVars>>
    \/ (\E err \in LocalErrors : LocalReadError(err)) /\ UNCHANGED <<tableVars, envVars, realVars, lockVars>>
    \/ LocalWaitDone /\ UNCHANGED <<tableVars, envVars, realVars, lockVars>>
    \/ LocalWaitNotified /\ UNCHANGED <<tableVars, envVars, realVars, lockVars>>
    \/ LocalCloseEnter /\ UNCHANGED <<tableVars, envVars, realVars, lockVars>>
    \/ LocalCloseReturn /\ UNCHANGED <<tableVars, envVars, realVars, lockVars>>
    \/ ExtCall /\ UNCHANGED <<tableVars, envVars, realVars, lockVars>>
    \/ (\E reason \in ExtReasons : ExtCloseEnter(reason)) /\ UNCHANGED <<tableVars, envVars, realVars, lockVars>>
    \/ ExtCloseReturn /\ UNCHANGED <<tableVars, envVars, realVars, lockVars>>

SpecTunnelFair == InitTunnelAlone /\ [][NextTunnelIdle]_vars /\ FairTunnel

----------------------------------------------------------------------------
(* The hijack records under every interleaving of Set, Get, GetByIP, the    *)
(* Serve loop and Reload                                                   *)

Init == InitTable(TableCapacity) /\ InitEnv /\ InitTunnel /\ InitRealIP /\ InitLocks

otherVars == <<envVars, tunnelVars, realVars, lockVars>>

Next ==
    \/ (\E d \in Domains, p \in Tags : Set(d, p)) /\ UNCHANGED otherVars
    \/ (\E d \in Domains : Get(d)) /\ UNCHANGED otherVars
    \/ (\E ip \in Addrs : GetByIP(ip)) /\ UNCHANGED otherVars
    \/ ServeTick /\ UNCHANGED otherVars
    \/ ServeRecords /\ UNCHANGED otherVars
    \/ ServeNonProxy /\ UNCHANGED otherVars
    \/ Advance /\ UNCHANGED otherVars
    \/ ReloadNonProxy /\ UNCHANGED otherVars
    \/ ReloadRecords /\ UNCHANGED otherVars

Spec == Init /\ [][Next]_vars

----------------------------------------------------------------------------
(* Exhaustion: a pool with one address fewer than the client has domains.  *)
(* The client asks about new domains in the order of ExhaustOrder and asks *)
(* again about any domain it has asked about before.                       *)

InitExhaust == InitTable(ExhaustCapacity) /\ InitEnv /\ InitTunnel /\ InitRealIP /\ InitLocks

AskAgain(order) ==
    /\ \E i \in 1..asked, p \in Tags :
          Set(order[i], p) /\ call' = <<"Set", order[i], p>>
    /\ UNCHANGED <<asked, fakeDNS, dialed, newRet, tunnelVars, realVars, lockVars>>

AskNext(order) ==
    /\ asked < Len(order)
    /\ \E p \in Tags :
          Set(order[asked + 1], p) /\ call' = <<"Set", order[asked + 1], p>>
    /\ asked' = asked + 1
    /\ UNCHANGED <<fakeDNS, dialed, newRet, tunnelVars, realVars, lockVars>>

NextExhaust ==
    \/ AskAgain(ExhaustOrder)
    \/ AskNext(ExhaustOrder)
    \/ ServeTick /\ UNCHANGED otherVars
    \/ ServeRecords /\ UNCHANGED otherVars
    \/ ServeNonProxy /\ UNCHANGED otherVars
    \/ Advance /\ UNCHANGED otherVars

SpecExhaust == InitExhaust /\ [][NextExhaust]_vars

----------------------------------------------------------------------------
(* Threshold gating: a pool of GateCapacity addresses.  The client has     *)
(* asked about the first n domains of GateOrder, 9 of them or more, at     *)
(* time 0 and goes on asking about the next ones.                          *)

InitGate ==
    /\ clock = 0
    /\ capacity = GateCapacity
    /\ \E n \in 9..Len(GateOrder) :
          /\ asked = n
          /\ poolUsed = 1..n
          /\ records = [d \in {GateOrder[i] : i \in 1..n} |->
                          LET i == CHOOSE j \in 1..n : GateOrder[j] = d
                          IN  [Hostname |-> d, Proxy |-> "p", IP |-> i, Hits |-> 1,
                               Expires |-> DNSDefaultTTL]]
          /\ ip2Domain = [i \in 1..n |-> GateOrder[i]]
    /\ poolFault = FALSE
    /\ nonProxyDomains = EmptyMap
    /\ servePc = "tick"
    /\ tickNow = 0
    /\ reloadPc = "idle"
    /\ released = {}
    /\ ret = Nil
    /\ call = <<"NewDnsTable">>
    /\ fakeDNS = TRUE
    /\ dialed = <<>>
    /\ newRet = Void
    /\ InitTunnel /\ InitRealIP /\ InitLocks

NextGate ==
    \/ AskNext(GateOrder)
    \/ ServeTick /\ UNCHANGED otherVars
    \/ ServeRecords /\ UNCHANGED otherVars
    \/ ServeNonProxy /\ UNCHANGED otherVars
    \/ Advance /\ UNCHANGED otherVars

SpecGate == InitGate /\ [][NextGate]_vars

----------------------------------------------------------------------------
(* NewTCP2Socks up to the dial *)

\* fmt.Sprintf("%v:%d", host, port), host a hostname or an address
HostName(domain) == [name |-> domain]
HostIP(ip) == [ip |-> ip]
Sprintf(host, port) == [host |-> host, port |-> port]

\* record.Hostname + " is blocked"
BlockedError(record) == [err |-> <<record.Hostname, " is blocked">>]

\* app.Proxies.Dial(proxy, remoteAddr) and the return that follows it
Dial(proxy, remoteAddr) ==
    /\ dialed' = <<[proxy |-> proxy, addr |-> remoteAddr]>>
    /\ \E ok \in BOOLEAN :
          newRet' = IF ok THEN [tunnel |-> [remoteAddr |-> remoteAddr]]
                          ELSE [err |-> "dial failed"]

\* NewTCP2Socks that dials whatever the record's tag is
NewTCP2SocksNoBlock(ip, port) ==
    IF fakeDNS
    THEN /\ GetByIP(ip)
         /\ IF ret' # Nil
            THEN Dial(ret'.Proxy, Sprintf(HostName(ret'.Hostname), port))
            ELSE Dial("", Sprintf(HostIP(ip), port))
    ELSE /\ Dial("", Sprintf(HostIP(ip), port))
         /\ UNCHANGED tableVars

NewTCP2Socks(ip, port) ==
    IF fakeDNS
    THEN /\ GetByIP(ip)
         /\ IF ret' # Nil
            THEN IF ret'.Proxy = "block"
                 THEN /\ newRet' = BlockedError(ret')
                      /\ dialed' = <<>>
                 ELSE Dial(ret'.Proxy, Sprintf(HostName(ret'.Hostname), port))
            ELSE Dial("", Sprintf(HostIP(ip), port))
    ELSE /\ Dial("", Sprintf(HostIP(ip), port))
         /\ UNCHANGED tableVars

(* Connections accepted while the DNS server hijacks domains *)

InitNew ==
    /\ InitTable(TableCapacity)
    /\ asked = 0
    /\ call = <<"NewDnsTable">>
    /\ fakeDNS \in BOOLEAN
    /\ dialed = <<>>
    /\ newRet = Void
    /\ InitTunnel /\ InitRealIP /\ InitLocks

NextNew ==
    \/ /\ fakeDNS
       /\ \E d \in Domains, p \in NewTags : Set(d, p) /\ call' = <<"Set", d, p>>
       /\ UNCHANGED <<asked, fakeDNS, dialed, newRet, tunnelVars, realVars, lockVars>>
    \/ /\ fakeDNS
       /\ Advance
       /\ UNCHANGED otherVars
    \/ /\ \E ip \in NewAddrs, port \in Ports :
             NewTCP2Socks(ip, port) /\ call' = <<"NewTCP2Socks", ip, port>>
       /\ UNCHANGED <<asked, fakeDNS, tunnelVars, realVars, lockVars>>

SpecNew == InitNew /\ [][NextNew]_vars

----------------------------------------------------------------------------
(* DomainRecord.SetRealIP alone *)

InitRealIPAlone == InitTable(TableCapacity) /\ InitEnv /\ InitTunnel /\ InitRealIP /\ InitLocks

notRealVars == <<tableVars, envVars, tunnelVars, lockVars>>

NextRealIP ==
    \/ (\E m \in Messages : SetRealIP(m)) /\ UNCHANGED notRealVars

SpecRealIP == InitRealIPAlone /\ [][NextRealIP]_vars

----------------------------------------------------------------------------
(* The table with its two mutexes, used by four goroutines at once.  Time   *)
(* stands still: no lock depends on it.                                     *)

InitLocksAlone == InitTable(TableCapacity) /\ InitEnv /\ InitTunnel /\ InitRealIP /\ InitLocks

notLockVars == <<envVars, tunnelVars, realVars>>

NextLocks ==
    \/ (\E op \in HijackOps : HijackCall(op)) /\ UNCHANGED notLockVars
    \/ HijackLock /\ UNCHANGED notLockVars
    \/ GetLocked /\ UNCHANGED notLockVars
    \/ GetByIPLocked /\ UNCHANGED notLockVars
    \/ SetLocked /\ UNCHANGED notLockVars
    \/ ContainsCall /\ UNCHANGED notLockVars
    \/ ContainsReturn /\ UNCHANGED notLockVars
    \/ (\E op \in BypassOps : BypassCall(op)) /\ UNCHANGED notLockVars
    \/ BypassLock /\ UNCHANGED notLockVars
    \/ IsNonProxyDomainLocked /\ UNCHANGED notLockVars
    \/ SetNonProxyDomainLocked /\ UNCHANGED notLockVars
    \/ ServeTickCall /\ UNCHANGED notLockVars
    \/ ClearExpiredDomainLock /\ UNCHANGED notLockVars
    \/ ClearExpiredDomainLocked /\ UNCHANGED notLockVars
    \/ ClearExpiredNonProxyDomainLock /\ UNCHANGED notLockVars
    \/ ClearExpiredNonProxyDomainLocked /\ UNCHANGED notLockVars
    \/ ReloadCall /\ UNCHANGED notLockVars
    \/ ReloadNpdLock /\ UNCHANGED notLockVars
    \/ ReloadNpdLocked /\ UNCHANGED notLockVars
    \/ ReloadRecordsLock /\ UNCHANGED notLockVars
    \/ ReloadRecordsLocked /\ UNCHANGED notLockVars

SpecLocks == InitLocksAlone /\ [][NextLocks]_vars

(* The same under fair scheduling.  A goroutine that can take a step of a    *)
(* method it is in takes one.  A goroutine at a Lock() gets the mutex if    *)
(* the mutex is unlocked again and again: a waiter that has failed to get   *)
(* a sync.Mutex for a millisecond is handed it by the next Unlock.  Nothing *)
(* makes anybody call a method, and nothing makes a tick arrive.  The pool  *)
(* is a small one.                                                          *)

HijackStep ==
    (HijackLock \/ GetLocked \/ GetByIPLocked \/ SetLocked \/ ContainsReturn)
       /\ UNCHANGED notLockVars

BypassStep ==
    (BypassLock \/ IsNonProxyDomainLocked \/ SetNonProxyDomainLocked)
       /\ UNCHANGED notLockVars

ServeStep ==
    (ClearExpiredDomainLock \/ ClearExpiredDomainLocked
        \/ ClearExpiredNonProxyDomainLock \/ ClearExpiredNonProxyDomainLocked)
       /\ UNCHANGED notLockVars

ReloadStep ==
    (ReloadNpdLock \/ ReloadNpdLocked \/ ReloadRecordsLock \/ ReloadRecordsLocked)
       /\ UNCHANGED notLockVars

FairLocks ==
    /\ SF_vars(HijackStep)
    /\ SF_vars(BypassStep)
    /\ SF_vars(ServeStep)
    /\ SF_vars(ReloadStep)

InitLocksFair == InitTable(FairCapacity) /\ InitEnv /\ InitTunnel /\ InitRealIP /\ InitLocks

SpecLocksFair == InitLocksFair /\ [][NextLocks]_vars /\ FairLocks

----------------------------------------------------------------------------
(* Claims about the hijack table *)

LiveIPs == {records[d].IP : d \in DOMAIN records}

\* C1: in every reachable state the reverse index maps each live record's
\* address to its hostname, every reverse-index entry points to a live record
\* with that address, and no two live records share an address.
C1_Bijection ==
    /\ \A d \in DOMAIN records :
          /\ records[d].Hostname = d
          /\ records[d].IP \in DOMAIN ip2Domain
          /\ ip2Domain[records[d].IP] = records[d].Hostname
    /\ \A i \in DOMAIN ip2Domain :
          /\ ip2Domain[i] \in DOMAIN records
          /\ records[ip2Domain[i]].IP = i
    /\ \A d1, d2 \in DOMAIN records : d1 # d2 => records[d1].IP # records[d2].IP

\* two live records, one of them created after a sweep has deleted a record
C1_Witness ==
    /\ Cardinality(DOMAIN records) = 2
    /\ released # {}
    /\ \E d \in DOMAIN records : records[d].Expires = clock + DNSDefaultTTL
    /\ reloadPc = "records"

\* C4: the addresses outstanding from the pool are exactly the addresses of
\* the live records, one per record, never more than the capacity, and the
\* pool never got a release of an address that was not outstanding.
C4_PoolConservation ==
    /\ poolUsed = LiveIPs
    /\ Cardinality(poolUsed) = Cardinality(DOMAIN records)
    /\ Cardinality(DOMAIN records) <= capacity
    /\ poolUsed \subseteq Addrs
    /\ ~poolFault

\* a record was swept, its address is free again, and Reload runs on a table
\* that holds a record
C4_Witness ==
    /\ released # {}
    /\ \E e \in released : e[2] \notin poolUsed
    /\ reloadPc = "records"
    /\ Cardinality(DOMAIN records) = 1

\* C7: a sweep that runs with more live records than the threshold removes
\* every record whose expiry is before the tick time from both maps and frees
\* its address, and leaves every other record and its reverse entry intact.
C7_SlidingTTL ==
    [][(ServeRecords /\ Cardinality(DOMAIN records) > Threshold) =>
          \A d \in DOMAIN records :
             IF records[d].Expires < tickNow
             THEN /\ d \notin DOMAIN records'
                  /\ records[d].IP \notin DOMAIN ip2Domain'
                  /\ records[d].IP \in Addrs \ poolUsed'
             ELSE /\ d \in DOMAIN records'
                  /\ records'[d] = records[d]
                  /\ records[d].IP \in DOMAIN ip2Domain'
                  /\ ip2Domain'[records[d].IP] = d
                  /\ records[d].IP \in poolUsed']_vars

\* a sweep has removed one record and left a touched one in place
C7_Witness ==
    /\ servePc = "npd"
    /\ Cardinality(released) = 1
    /\ Cardinality(DOMAIN records) = 1
    /\ \A d \in DOMAIN records : records[d].Hits >= 2 /\ records[d].Expires >= tickNow

\* C5: Set on a domain that has a live record returns that record and
\* changes neither the record (tag, address, hits, expiry) nor the maps nor
\* the pool, whatever tag it passes; Set on a domain without a record takes
\* exactly one address, so two successive Sets take one address in total.
C5_SetIdempotent ==
    [][\A d \in Domains, p \in NewTags :
          Set(d, p) =>
             IF d \in DOMAIN records
             THEN /\ ret' = records[d]
                  /\ records' = records
                  /\ ip2Domain' = ip2Domain
                  /\ poolUsed' = poolUsed
             ELSE /\ Cardinality(poolUsed') = Cardinality(poolUsed) + 1
                  /\ d \in DOMAIN records'
                  /\ ret' = records'[d]
                  /\ records'[d].Proxy = p]_vars

\* a Set with another tag, made after the clock has moved on, has returned
\* the live record
C5_Witness ==
    /\ call[1] = "Set"
    /\ call[2] \in DOMAIN records
    /\ records[call[2]].Proxy # call[3]
    /\ ret = records[call[2]]
    /\ records[call[2]].Hits = 1
    /\ records[call[2]].Expires < clock + DNSDefaultTTL
    /\ Cardinality(poolUsed) = 1

AllExpired == \A d \in DOMAIN records : records[d].Expires < tickNow

SweepDeletesNothing ==
    /\ records' = records
    /\ ip2Domain' = ip2Domain
    /\ poolUsed' = poolUsed

SweepEvictsAll ==
    /\ records' = EmptyMap
    /\ ip2Domain' = EmptyMap
    /\ poolUsed' = {}

\* C6 as claimed: with capacity 100 the threshold is 10; a tick over 9
\* expired records deletes nothing and a tick over 10 expired records evicts
\* them.
C6_GateAsClaimed ==
    [][(ServeRecords /\ capacity \div 10 = 10 /\ AllExpired) =>
          /\ Cardinality(DOMAIN records) = 9 => SweepDeletesNothing
          /\ Cardinality(DOMAIN records) = 10 => SweepEvictsAll]_vars

\* C6 amended: with capacity 100 the threshold is 10; a tick over 9 or over
\* 10 expired records deletes nothing, and a tick over 11 expired records
\* evicts them: both map entries removed and the addresses released.
C6_Gate ==
    [][(ServeRecords /\ capacity \div 10 = 10 /\ AllExpired) =>
          /\ Threshold = 10
          /\ Cardinality(DOMAIN records) \in {9, 10} => SweepDeletesNothing
          /\ Cardinality(DOMAIN records) = 11 => SweepEvictsAll]_vars

\* a tick has evicted 11 expired records
C6_Witness ==
    /\ Threshold = 10
    /\ servePc = "npd"
    /\ Cardinality(released) = 11
    /\ records = EmptyMap
    /\ poolUsed = {}

\* C8: with a pool of 4 addresses, Set on a new domain succeeds with an
\* address no live record holds while fewer than 4 records are live; with 4
\* live records it returns none and changes neither map nor the pool; and
\* when the last sweep reaped exactly one record of a full table, Set on a
\* new domain is given the address that record held.
C8_ExhaustionAndReuse ==
    [][\A i \in 1..Len(ExhaustOrder), p \in Tags :
          LET d == ExhaustOrder[i]
          IN  (Set(d, p) /\ d \notin DOMAIN records) =>
                 /\ capacity = 4
                 /\ Cardinality(DOMAIN records) = capacity =>
                       /\ ret' = Nil
                       /\ records' = records
                       /\ ip2Domain' = ip2Domain
                       /\ poolUsed' = poolUsed
                 /\ Cardinality(DOMAIN records) < capacity =>
                       /\ ret' # Nil
                       /\ ret'.Hostname = d
                       /\ ret'.IP \in Addrs \ LiveIPs
                       /\ records' = MapPut(records, d, ret')
                 /\ \A e \in released :
                       (released = {e} /\ LiveIPs = Addrs \ {e[2]}) =>
                          (ret' # Nil /\ ret'.IP = e[2])]_vars

\* a, b, c, d filled the pool, the sweep reaped a alone, and Set(e) was given
\* the address a held
C8_Witness ==
    /\ call = <<"Set", "e", "p">>
    /\ ret # Nil
    /\ ret.Hostname = "e"
    /\ released = {<<"a", ret.IP>>}
    /\ DOMAIN records = {"b", "c", "d", "e"}
    /\ poolUsed = Addrs

\* C10: NewTCP2Socks on an address whose record has the tag "block" returns
\* an error and no tunnel and never dials; on an address whose record has
\* another tag it dials once, with that tag and "hostname:port"; on an address
\* without a record it dials once, with the empty tag and "address:port".
C10_PolicyBlocked ==
    [][\A ip \in NewAddrs, port \in Ports :
          NewTCP2Socks(ip, port) =>
             IF fakeDNS /\ ip \in DOMAIN ip2Domain
             THEN LET record == records[ip2Domain[ip]]
                  IN  IF record.Proxy = "block"
                      THEN /\ dialed' = <<>>
                           /\ DOMAIN newRet' = {"err"}
                      ELSE dialed' = <<[proxy |-> record.Proxy,
                                        addr |-> [host |-> [name |-> record.Hostname],
                                                  port |-> port]]>>
             ELSE dialed' = <<[proxy |-> "",
                               addr |-> [host |-> [ip |-> ip], port |-> port]]>>]_vars

\* a connection to the address of a record tagged "block" was refused
\* without a dial
C10_Witness ==
    /\ call[1] = "NewTCP2Socks"
    /\ call[2] \in DOMAIN ip2Domain
    /\ records[ip2Domain[call[2]]].Proxy = "block"
    /\ ret = records[ip2Domain[call[2]]]
    /\ dialed = <<>>
    /\ newRet = [err |-> <<ip2Domain[call[2]], " is blocked">>]

----------------------------------------------------------------------------
(* Claims about the tunnel *)

\* C2: status monotonicity.  On each side, a status that is Closed is never
\* Proxying afterwards: no step of Run, of a pump or of Close takes the local
\* status or the remote status from Closed to Proxying.
C2_StatusMonotonic ==
    [][/\ localEndpointStatus = "Closed" => localEndpointStatus' # "Proxying"
       /\ remoteStatus = "Closed" => remoteStatus' # "Proxying"]_vars

\* C3: Close idempotence.  Neither handle is ever closed twice and Close logs
\* at most one reason; once closeOne is done, whoever called Close, the local
\* endpoint and the remote connection have each been closed exactly once.
C3_CloseExactlyOnce ==
    /\ localClosed <= 1
    /\ remoteClosed <= 1
    /\ closeLogs <= 1
    /\ closeOne = "done" => localClosed = 1 /\ remoteClosed = 1

\* C9: clean-vs-error close in the remote-to-local pump.  A remote read that
\* fails with timeout, connection reset or end-of-stream takes the pump to
\* Close with no reason and logs nothing; one that fails with any other error
\* logs that error and takes the pump to Close with it.  When the pump's call
\* is the one that runs the teardown, Close logs the reason exactly when
\* there is one.
C9_CleanVsError ==
    [][/\ \A err \in RemoteReadErrors :
             (remotePc = "read" /\ remotePc' # "read" /\ remoteErr' = err) =>
                /\ remotePc' = "close"
                /\ IF err \in {"timeout", "connection reset", "EOF"}
                   THEN remoteReason' = NoReason /\ logged' = logged
                   ELSE /\ remoteReason' = <<err>>
                        /\ logged' = logged \cup {<<"remote read", err>>}
       /\ (closeOne = "new" /\ closeOne' # "new" /\ closer' = "remote") =>
             IF remoteReason = NoReason
             THEN logged' = logged /\ closeLogs' = closeLogs
             ELSE /\ logged' = logged \cup {<<"close", remoteReason>>}
                  /\ closeLogs' = closeLogs + 1]_vars

\* the remote read failed with an error that is none of the three, and the
\* pump's Close ran the teardown and logged it
C9_Witness ==
    /\ remoteErr = "other"
    /\ closer = "remote"
    /\ closeOne = "done"
    /\ <<"remote read", "other">> \in logged
    /\ <<"close", <<"other">>>> \in logged

\* s is a prefix of t
IsPrefix(s, t) == Len(s) <= Len(t) /\ SubSeq(t, 1, Len(s)) = s

\* C11: byte-for-byte relay.  In each direction the bytes the destination's
\* writes have taken are a prefix of the bytes the source's reads have
\* returned; while a pump is writing a payload, the bytes taken followed by
\* the bytes still to write are exactly the bytes read; and a pump that is
\* about to read again has had every byte it read taken by the destination.
C11_ByteRelay ==
    /\ IsPrefix(localWritten, remoteRead)
    /\ IsPrefix(remoteWritten, localRead)
    /\ remotePc \in {"check", "write"} => localWritten \o rChunk = remoteRead
    /\ remotePc \in {"select", "read"} => localWritten = remoteRead
    /\ localPc \in {"check", "write"} => remoteWritten \o lChunk = localRead
    /\ localPc \in {"select", "read", "wait"} => remoteWritten = localRead

\* the remote pump is in the middle of a payload of two bytes after a short
\* write, and the local pump has flushed two bytes and is about to read again
C11_Witness ==
    /\ remoteRead = <<1, 2>>
    /\ localWritten = <<1>>
    /\ rChunk = <<2>>
    /\ remotePc = "write"
    /\ localRead = <<1, 2>>
    /\ remoteWritten = <<1, 2>>
    /\ localPc = "select"

\* C12: Run self-closes.  Whenever Run has returned, both statuses are Closed,
\* the cancellation signal has fired, and the local endpoint and the remote
\* connection have each been closed.
C12_RunSelfCloses ==
    runPc = "done" =>
       /\ localEndpointStatus = "Closed"
       /\ remoteStatus = "Closed"
       /\ ctxDone
       /\ localClosed = 1
       /\ remoteClosed = 1

\* C13: Close is safe whenever it is invoked after construction.  A Close from
\* outside never uses a cancellation function that Run has not assigned yet,
\* and once the teardown it ran is over, both statuses have been set to
\* Closed and both handles have been closed exactly once.
C13_CloseSafe ==
    /\ ~panicked
    /\ (closer = "ext" /\ closeOne = "done") =>
          /\ SubSeq(teardown, 1, 2) = <<"local status", "remote status">>
          /\ localClosed = 1
          /\ remoteClosed = 1

\* the effects of Close, in the order the design gives them
TeardownOrder ==
    <<"local status", "remote status", "cancel", "local endpoint", "remote conn">>

\* C14: order of teardown effects.  The effects of the one execution of Close
\* happen in the order: local status Closed, remote status Closed,
\* cancellation, local endpoint closed, remote connection closed; so the
\* cancellation has fired only after both statuses were set by that Close,
\* and a handle is closed only after the cancellation and both status writes.
C14_TeardownOrder ==
    /\ IsPrefix(teardown, TeardownOrder)
    /\ ctxDone <=> Len(teardown) >= 3
    /\ localClosed = (IF Len(teardown) >= 4 THEN 1 ELSE 0)
    /\ remoteClosed = (IF Len(teardown) >= 5 THEN 1 ELSE 0)
    /\ (localClosed > 0 \/ remoteClosed > 0) =>
          /\ SubSeq(teardown, 1, 3) = <<"local status", "remote status", "cancel">>
          /\ ctxDone

\* a pump's Close has closed the local endpoint and not yet the remote
\* connection
C14_Witness ==
    /\ closer = "remote"
    /\ closePc = "closeRemote"
    /\ teardown = SubSeq(TeardownOrder, 1, 4)
    /\ localClosed = 1
    /\ remoteClosed = 0

\* C15: shutdown liveness.  Once Close has been invoked on a tunnel that Run
\* has started, under fair scheduling the local pump, also when it is
\* suspended and no notification ever arrives, and the remote pump both
\* terminate, and Run returns; and once the cancellation has fired the remote
\* pump starts no further read.
C15_ShutdownLiveness ==
    /\ (closeOne = "running" /\ closePc = "setLocal" /\ runPc # "new") ~> (runPc = "done")
    /\ (ctxDone /\ localPc = "wait") ~> (localPc = "done")
    /\ (ctxDone /\ remotePc # "off") ~> (remotePc = "done")
    /\ [][(ctxDone /\ remotePc # "read") => remotePc' # "read"]_vars

\* Run has returned after a Close that found the local pump suspended
C15_Witness ==
    /\ runPc = "done"
    /\ closer = "ext"
    /\ localPc = "done"
    /\ remotePc = "done"
    /\ localRead = <<>>
    /\ closeOne = "done"

HalfClosed == {"ErrClosedForSend", "ErrClosedForReceive"}

\* what a pump that ends on a half-close leaves alone
HalfCloseFrame ==
    UNCHANGED <<localEndpointStatus, remoteStatus, ctxDone, localClosed, remoteClosed,
                closeOne, closer, closePc, teardown, closeLogs, logged, runPc>>

\* C16: half-close.  A local read (local pump) or a local write (remote pump)
\* that reports closed for send or closed for receive ends that pump without
\* a call of Close and without a log; the statuses, the cancellation, the
\* handles and the other pump are left as they are.  A pump that has ended
\* stays ended, so Close is then run only by a pump that is at its own call
\* of Close, by Run after both pumps have stopped, or by an outside caller.
C16_HalfClose ==
    [][/\ \A err \in HalfClosed :
             /\ LocalReadError(err) =>
                   localPc' = "done" /\ HalfCloseFrame /\ UNCHANGED <<remotePc, rChunk>>
             /\ RemoteWriteError(err) =>
                   remotePc' = "done" /\ HalfCloseFrame /\ UNCHANGED <<localPc, lChunk>>
       /\ localPc = "done" => localPc' = "done"
       /\ remotePc = "done" => remotePc' = "done"
       /\ closer' # closer =>
             /\ closer' = "local" => localPc = "close"
             /\ closer' = "remote" => remotePc = "close"
             /\ closer' = "run" => localPc = "done" /\ remotePc = "done"]_vars

\* the local pump has ended on a half-close, nobody has called Close, and
\* the remote pump is in the middle of forwarding a payload
C16_Witness ==
    /\ localPc = "done"
    /\ closeOne = "new"
    /\ extPc = "idle"
    /\ remotePc = "write"
    /\ localWritten = <<1>>
    /\ rChunk = <<2>>

----------------------------------------------------------------------------
(* Claims about DomainRecord.SetRealIP *)

IPv4Items(answer) == {i \in 1..Len(answer) : answer[i].Rrtype = "A"}

FirstIPv4(answer) ==
    IF IPv4Items(answer) = {} THEN NilIP
    ELSE answer[CHOOSE i \in IPv4Items(answer) : \A j \in IPv4Items(answer) : i <= j].A

\* C17: a call of SetRealIP on a record whose real address is set changes
\* nothing; on a record whose real address is unset it leaves the address of
\* the first IPv4 record of the answer list, and leaves it unset when the
\* list has no IPv4 record.
C17_FirstIPv4 ==
    [][RealIP' = IF RealIP # NilIP THEN RealIP ELSE FirstIPv4(msg')]_realVars

----------------------------------------------------------------------------
(* Claims about the two mutexes of the table *)

\* goroutine t is at a Lock() of recordsLock and has not got it
WaitsRecords(t) ==
    \/ \E op \in HijackOps : pc[t] = <<op, "Lock">>
    \/ pc[t] = <<"clearExpiredDomain", "Lock">>
    \/ pc[t] = <<"Reload", "recordsLock.Lock">>

\* goroutine t is at a Lock() of npdLock and has not got it
WaitsNpd(t) ==
    \/ \E op \in BypassOps : pc[t] = <<op, "Lock">>
    \/ pc[t] = <<"clearExpiredNonProxyDomain", "Lock">>
    \/ pc[t] = <<"Reload", "npdLock.Lock">>

InHijackOp(t) == \E op \in HijackOps : pc[t][1] = op
InBypassOp(t) == \E op \in BypassOps : pc[t][1] = op

\* t cannot go on before recordsLock is released: it is at its Lock(), or at
\* the Lock() of npdLock while the holder of npdLock is at the Lock() of
\* recordsLock
WaitsForRecords(t) ==
    \/ WaitsRecords(t) /\ recordsLock # Unlocked
    \/ /\ WaitsNpd(t)
       /\ npdLock \in LockThreads
       /\ WaitsRecords(npdLock)
       /\ recordsLock # Unlocked

\* t cannot go on before npdLock is released
WaitsForNpd(t) ==
    \/ WaitsNpd(t) /\ npdLock # Unlocked
    \/ /\ WaitsRecords(t)
       /\ recordsLock \in LockThreads
       /\ WaitsNpd(recordsLock)
       /\ npdLock # Unlocked

\* C18: in every reachable state no goroutine in IsNonProxyDomain or
\* SetNonProxyDomain waits, directly or through the holder of npdLock, for
\* recordsLock to be released, and no goroutine in Get, GetByIP or Set waits
\* for npdLock to be released.
C18_ContentionIsolation ==
    \A t \in LockThreads :
       /\ InBypassOp(t) => ~WaitsForRecords(t)
       /\ InHijackOp(t) => ~WaitsForNpd(t)

\* goroutine t is in a part of a table method that calls the pool: Alloc in
\* Set, Capacity and Release in clearExpiredDomain, Release in Reload,
\* Contains in Contains
InPoolOp(t) ==
    \/ pc[t] = <<"Set", "locked">>
    \/ pc[t] = <<"clearExpiredDomain", "locked">>
    \/ pc[t] = <<"Reload", "recordsLock locked">>
    \/ pc[t] = <<"Contains", "ipPool">>

\* C19: in every reachable state a goroutine that is executing a pool
\* operation holds recordsLock.
C19_PoolUnderRecordsLock ==
    \A t \in LockThreads : InPoolOp(t) => recordsLock = t

\* where goroutine t is when it is in no method of the table
IdlePlace(t) == IF t = "serve" THEN ServeIdle ELSE Idle

\* two goroutines each hold the mutex the other is waiting for
WaitCycle ==
    \E t, u \in LockThreads :
       /\ recordsLock = t /\ WaitsNpd(t)
       /\ npdLock = u /\ WaitsRecords(u)

\* C20: no reachable state has two goroutines each holding the mutex the
\* other waits for; a goroutine that is in no method holds no mutex; and,
\* under fair scheduling, a goroutine that has started a method of the table
\* is eventually out of it again, with every mutex it took released.
C20_DeadlockFreedom ==
    /\ []~WaitCycle
    /\ [](\A t \in LockThreads :
             pc[t] = IdlePlace(t) => recordsLock # t /\ npdLock # t)
    /\ \A t \in LockThreads : (pc[t] # IdlePlace(t)) ~> (pc[t] = IdlePlace(t))

\* Reload holds npdLock and waits for recordsLock, which a Get holds, while a
\* non proxy method waits for npdLock and the sweep waits for recordsLock
C20_Witness ==
    /\ recordsLock = "hijack"
    /\ npdLock = "reload"
    /\ pc["hijack"] = <<"Get", "locked">>
    /\ pc["reload"] = <<"Reload", "recordsLock.Lock">>
    /\ pc["serve"] = <<"clearExpiredDomain", "Lock">>
    /\ WaitsNpd("bypass")

============================================================================
